---------------------------- MODULE Spec2Model ----------------------------
(***************************************************************************)
(* A model of the lambda-calculus term engine of KarpelesLab/lambda:       *)
(* the term algebra (Var, Abstraction, Application), free variables,       *)
(* capture-avoiding substitution, alpha conversion, single-step beta       *)
(* reduction, the bounded driver Reduce, the printer String and the        *)
(* recursive-descent parser Parse.                                         *)
(*                                                                         *)
(* Go strings are modelled as TLA+ strings, one character per byte.  The   *)
(* two bytes of the UTF-8 encoding of the Greek letter lambda (0xCE 0xBB)  *)
(* are written "@" and "#", so that byte offsets and lengths are those of  *)
(* the Go program.                                                         *)
(***************************************************************************)
EXTENDS Integers, Sequences, FiniteSets, TLC

VARIABLES
    pc,      \* position of the running call: "entry", "loop", "done"
    call,    \* the call being executed: its operation and its arguments
    obj,     \* Reduce: the local obj
    limit,   \* Reduce: the local limit (after defaulting)
    steps,   \* Reduce: the local steps
    i,       \* Reduce: the loop counter i
    ret,     \* the value the call returned (None until it returns)
    prev,    \* the previous call and what it returned (None if there was none)
    lazy,    \* a LazyScript object: its fields script and parsed
    parses   \* how many times the LazyScript object has called Parse

vars == <<pc, call, obj, limit, steps, i, ret, prev, lazy, parses>>

None == [tag |-> "None"]

-----------------------------------------------------------------------------
(* Terms *)

Var(name) == [tag |-> "Var", Name |-> name]

Abstraction(param, body) == [tag |-> "Abs", Param |-> param, Body |-> body]

Application(func, arg) == [tag |-> "App", Func |-> func, Arg |-> arg]

isVar(t) == t.tag = "Var"

isAbs(t) == t.tag = "Abs"

isApp(t) == t.tag = "App"

\* A LazyScript met as a term: the object the term points to, with its
\* fields script and parsed.
LazyScript(script, parsed) ==
    [tag |-> "Lazy", script |-> script, parsed |-> parsed]

isLazy(t) == t.tag = "Lazy"

\* l.parse() on an object held by a term.  Parse depends on the script
\* alone, so the call returns the same term at the first use, when it fills
\* parsed, as at every later one; the objects held by terms carry that term
\* in parsed from the start (see LazyTerm).  The filling of the field at
\* the first use is modelled on one object in the section on LazyScript.
LazyScript_parse(l) == l.parsed

-----------------------------------------------------------------------------
(* FreeVars *)

RECURSIVE FreeVars(_)
FreeVars(t) ==
    CASE isVar(t) -> {t.Name}
      [] isAbs(t) -> FreeVars(t.Body) \ {t.Param}
      [] isApp(t) -> FreeVars(t.Func) \cup FreeVars(t.Arg)
      [] isLazy(t) -> FreeVars(LazyScript_parse(t))

-----------------------------------------------------------------------------
(* freshVar: base if it is not avoided, else base0, base1, ... *)

RECURSIVE freshProbe(_, _, _)
freshProbe(base, avoid, n) ==
    LET candidate == base \o ToString(n)
    IN  IF candidate \notin avoid THEN candidate
        ELSE freshProbe(base, avoid, n + 1)

freshVarKeepsBase(base, avoid) == base

\* A plausible slip: the probes start at base1.
freshVarProbesFromOne(base, avoid) ==
    IF base \notin avoid THEN base ELSE freshProbe(base, avoid, 1)

freshVar(base, avoid) ==
    IF base \notin avoid THEN base ELSE freshProbe(base, avoid, 0)

-----------------------------------------------------------------------------
(* AlphaConvert: unconditional renaming of references and binders *)

\* A plausible slip: the renaming stops at an inner binder of oldName.
RECURSIVE AlphaConvertStopsAtBinder(_, _, _)
AlphaConvertStopsAtBinder(t, oldName, newName) ==
    CASE isVar(t) -> IF t.Name = oldName THEN Var(newName) ELSE t
      [] isAbs(t) ->
            IF t.Param = oldName THEN t
            ELSE Abstraction(t.Param,
                             AlphaConvertStopsAtBinder(t.Body, oldName,
                                                       newName))
      [] isApp(t) ->
            Application(AlphaConvertStopsAtBinder(t.Func, oldName, newName),
                        AlphaConvertStopsAtBinder(t.Arg, oldName, newName))

RECURSIVE AlphaConvert(_, _, _)
AlphaConvert(t, oldName, newName) ==
    CASE isVar(t) -> IF t.Name = oldName THEN Var(newName) ELSE t
      [] isAbs(t) ->
            IF t.Param = oldName
            THEN Abstraction(newName, AlphaConvert(t.Body, oldName, newName))
            ELSE Abstraction(t.Param, AlphaConvert(t.Body, oldName, newName))
      [] isApp(t) ->
            Application(AlphaConvert(t.Func, oldName, newName),
                        AlphaConvert(t.Arg, oldName, newName))
      [] isLazy(t) -> AlphaConvert(LazyScript_parse(t), oldName, newName)

-----------------------------------------------------------------------------
(* Substitute: t[varName := replacement] *)

RECURSIVE Substitute(_, _, _)

Var_Substitute(v, varName, replacement) ==
    IF v.Name = varName THEN replacement ELSE v

\* A plausible slip: no renaming, the binder captures the replacement's
\* free variable.
Abstraction_Substitute_Capturing(a, varName, replacement) ==
    IF a.Param = varName THEN a
    ELSE Abstraction(a.Param, Substitute(a.Body, varName, replacement))

\* A plausible slip: the binder that shadows varName is not noticed.
Abstraction_Substitute_NoShadow(a, varName, replacement) ==
    IF a.Param \in FreeVars(replacement)
    THEN LET newParam == freshVar(a.Param, FreeVars(replacement))
             newBody  == AlphaConvert(a.Body, a.Param, newParam)
         IN  Abstraction(newParam, Substitute(newBody, varName, replacement))
    ELSE Abstraction(a.Param, Substitute(a.Body, varName, replacement))

Abstraction_Substitute(a, varName, replacement) ==
    IF a.Param = varName THEN a
    ELSE IF a.Param \in FreeVars(replacement)
         THEN LET newParam == freshVar(a.Param, FreeVars(replacement))
                  newBody  == AlphaConvert(a.Body, a.Param, newParam)
              IN  Abstraction(newParam, Substitute(newBody, varName, replacement))
         ELSE Abstraction(a.Param, Substitute(a.Body, varName, replacement))

\* A plausible slip: the argument side is left as it was.
Application_Substitute_FuncOnly(a, varName, replacement) ==
    Application(Substitute(a.Func, varName, replacement), a.Arg)

Application_Substitute(a, varName, replacement) ==
    Application(Substitute(a.Func, varName, replacement),
                Substitute(a.Arg, varName, replacement))

Substitute(t, varName, replacement) ==
    CASE isVar(t) -> Var_Substitute(t, varName, replacement)
      [] isAbs(t) -> Abstraction_Substitute(t, varName, replacement)
      [] isApp(t) -> Application_Substitute(t, varName, replacement)
      [] isLazy(t) -> Substitute(LazyScript_parse(t), varName, replacement)

-----------------------------------------------------------------------------
(* BetaReduce: one step; returns the term and whether a step was made *)

RECURSIVE BetaReduce(_)

Var_BetaReduce(v) == [term |-> v, reduced |-> FALSE]

Abstraction_BetaReduce(a) ==
    LET b == BetaReduce(a.Body)
    IN  IF b.reduced
        THEN [term |-> Abstraction(a.Param, b.term), reduced |-> TRUE]
        ELSE [term |-> a, reduced |-> FALSE]

\* A plausible slip: applicative order, the argument is reduced before the
\* redex at the top is contracted.
Application_BetaReduce_ArgFirst(a) ==
    LET newArg == BetaReduce(a.Arg)
    IN  IF newArg.reduced
        THEN [term |-> Application(a.Func, newArg.term), reduced |-> TRUE]
        ELSE IF isAbs(a.Func)
        THEN [term |-> Substitute(a.Func.Body, a.Func.Param, a.Arg),
              reduced |-> TRUE]
        ELSE LET newFunc == BetaReduce(a.Func)
             IN  IF newFunc.reduced
                 THEN [term |-> Application(newFunc.term, a.Arg),
                       reduced |-> TRUE]
                 ELSE [term |-> a, reduced |-> FALSE]

Application_BetaReduce(a) ==
    LET funcTerm == IF isLazy(a.Func) THEN LazyScript_parse(a.Func)
                    ELSE a.Func
    IN
    IF isAbs(funcTerm)
    THEN [term |-> Substitute(funcTerm.Body, funcTerm.Param, a.Arg),
          reduced |-> TRUE]
    ELSE LET newFunc == BetaReduce(a.Func)
         IN  IF newFunc.reduced
             THEN [term |-> Application(newFunc.term, a.Arg), reduced |-> TRUE]
             ELSE LET newArg == BetaReduce(a.Arg)
                  IN  IF newArg.reduced
                      THEN [term |-> Application(a.Func, newArg.term),
                            reduced |-> TRUE]
                      ELSE [term |-> a, reduced |-> FALSE]

BetaReduce(t) ==
    CASE isVar(t) -> Var_BetaReduce(t)
      [] isAbs(t) -> Abstraction_BetaReduce(t)
      [] isApp(t) -> Application_BetaReduce(t)
      [] isLazy(t) -> BetaReduce(LazyScript_parse(t))

-----------------------------------------------------------------------------
(* Reduce: the bounded driver.  One action per loop iteration. *)

DefaultLimit == 1000

\* Reduce's first statement: limit <= 0 selects the default.
\* A plausible slip: only limit = 0 selects the default.
ReduceLimitZeroOnly(l) == IF l = 0 THEN DefaultLimit ELSE l

ReduceLimit(l) == IF l <= 0 THEN DefaultLimit ELSE l

\* A plausible slip: the probe that found nothing to reduce is counted too.
ReduceBreakCountsProbe(n) == n + 1

\* The step count Reduce holds when it leaves the loop by break.
ReduceBreak(n) == n

\* A plausible slip: the loop test reads i <= limit.
ReduceLoopTestInclusive(k, l) == k <= l

\* The loop test i < limit.
ReduceLoopTest(k, l) == k < l

ReduceEnter ==
    /\ pc = "entry"
    /\ call.op = "Reduce"
    /\ limit' = ReduceLimit(call.limit)
    /\ obj' = call.obj
    /\ steps' = 0
    /\ i' = 0
    /\ pc' = "loop"
    /\ UNCHANGED <<call, ret, prev, lazy, parses>>

ReduceStep ==
    /\ pc = "loop"
    /\ ReduceLoopTest(i, limit)
    /\ BetaReduce(obj).reduced
    /\ obj' = BetaReduce(obj).term
    /\ steps' = steps + 1
    /\ i' = i + 1
    /\ UNCHANGED <<pc, call, limit, ret, prev, lazy, parses>>

ReduceBreakOut ==
    /\ pc = "loop"
    /\ ReduceLoopTest(i, limit)
    /\ ~BetaReduce(obj).reduced
    /\ ret' = [term |-> obj, steps |-> ReduceBreak(steps)]
    /\ pc' = "done"
    /\ UNCHANGED <<call, obj, limit, steps, i, prev, lazy, parses>>

ReduceLimitReached ==
    /\ pc = "loop"
    /\ ~ReduceLoopTest(i, limit)
    /\ ret' = [term |-> obj, steps |-> steps]
    /\ pc' = "done"
    /\ UNCHANGED <<call, obj, limit, steps, i, prev, lazy, parses>>

-----------------------------------------------------------------------------
(* Terms the model draws its inputs from *)

RECURSIVE TermsOfSize(_, _)
TermsOfSize(n, names) ==
    IF n = 1 THEN {Var(x) : x \in names}
    ELSE {Abstraction(p, b) : p \in names, b \in TermsOfSize(n - 1, names)}
         \cup UNION {{Application(f, a) : f \in TermsOfSize(k, names),
                                          a \in TermsOfSize(n - 1 - k, names)}
                     : k \in 1..(n - 2)}

TermsUpTo(n, names) == UNION {TermsOfSize(k, names) : k \in 1..n}

\* The combinators of the library that the claims name.
I == Abstraction("x", Var("x"))

K == Abstraction("x", Abstraction("y", Var("x")))

U == Abstraction("x", Application(Var("x"), Var("x")))

OMEGA == Application(U, U)

\* (\x.\y.x) a OMEGA: the discarded argument has no normal form.
KaOmega == Application(Application(K, Var("a")), OMEGA)

\* OMEGA (\x.x): the function side has no normal form.
OmegaI == Application(OMEGA, I)

MaxReduceSize == 6

MaxLimit == 3

ReduceNames == {"x", "y"}

\* (\x.x) ((\y.y) a): a redex whose argument holds another redex.
RedexInArg ==
    Application(I, Application(Abstraction("y", Var("y")), Var("a")))

\* (\x.(\y.y) x) a: a redex whose body holds another redex.
RedexInBody ==
    Application(Abstraction("x", Application(Abstraction("y", Var("y")),
                                             Var("x"))),
                Var("a"))

ReduceTerms ==
    TermsUpTo(MaxReduceSize, ReduceNames)
        \cup {OMEGA, KaOmega, OmegaI, RedexInArg, RedexInBody,
              Application(I, Var("y")),
              Application(Application(K, Var("a")), Var("b"))}

Limits == (-1)..MaxLimit

\* A caller that reduces a term and then reduces the result once more.
ReduceAgain ==
    /\ pc = "done"
    /\ call.op = "Reduce"
    /\ prev = None
    /\ \E l \in Limits :
          call' = [op |-> "Reduce", obj |-> ret.term, limit |-> l]
    /\ prev' = [call |-> call, ret |-> ret]
    /\ pc' = "entry"
    /\ ret' = None
    /\ UNCHANGED <<obj, limit, steps, i, lazy, parses>>

\* A caller that passed a limit <= 0 and then reduces the same term with the
\* limit 1000.
ReduceWithDefault ==
    /\ pc = "done"
    /\ call.op = "Reduce"
    /\ prev = None
    /\ call.limit <= 0
    /\ call' = [op |-> "Reduce", obj |-> call.obj, limit |-> DefaultLimit]
    /\ prev' = [call |-> call, ret |-> ret]
    /\ pc' = "entry"
    /\ ret' = None
    /\ UNCHANGED <<obj, limit, steps, i, lazy, parses>>

InitReduce ==
    /\ pc = "entry"
    /\ \E t \in ReduceTerms, l \in Limits :
          call = [op |-> "Reduce", obj |-> t, limit |-> l]
    /\ obj = None
    /\ limit = 0
    /\ steps = 0
    /\ i = 0
    /\ ret = None
    /\ prev = None
    /\ lazy = None
    /\ parses = 0

NextReduce ==
    \/ ReduceEnter
    \/ ReduceStep
    \/ ReduceBreakOut
    \/ ReduceLimitReached
    \/ ReduceAgain
    \/ ReduceWithDefault

SpecReduce == InitReduce /\ [][NextReduce]_vars

\* The scheduling of a sequential program: a call that can take a step does.
FairSpecReduce == SpecReduce /\ WF_vars(NextReduce)

-----------------------------------------------------------------------------
(* Claims about Reduce *)

RECURSIVE BetaIter(_, _)
BetaIter(t, n) ==
    IF n = 0 THEN t
    ELSE IF n = 1 THEN BetaReduce(t).term
    ELSE LET half == BetaIter(t, n \div 2)
         IN  \* the test evaluates the first half before the second starts
             IF half = None THEN None ELSE BetaIter(half, n - (n \div 2))

Reducible(t) == BetaReduce(t).reduced

\* C1: for a limit L > 0, Reduce(t, L) returns (t', n) with 0 <= n <= L, t'
\* the result of n BetaReduce steps from t each of which reported
\* reduced = true, and it stops at the first step that reports false.
C1_ReduceContract ==
    (pc = "done" /\ call.limit > 0) =>
        /\ ret.steps \in 0..call.limit
        /\ ret.term = BetaIter(call.obj, ret.steps)
        /\ \A k \in 0..(ret.steps - 1) : Reducible(BetaIter(call.obj, k))
        /\ (ret.steps < call.limit => ~Reducible(ret.term))

C1_Witness ==
    /\ pc = "done"
    /\ call.limit > 0
    /\ ret.steps > 0
    /\ ret.steps < call.limit

\* C2 as claimed: whenever Reduce returns a term that is still reducible,
\* the step count equals the limit the caller passed, for every integer
\* limit (also limit <= 0).
C2_StepsEqualPassedLimit ==
    (pc = "done" /\ Reducible(ret.term)) => ret.steps = call.limit

\* C2 as amended: whenever Reduce returns a term that is still reducible,
\* the step count equals the limit in force: the limit passed when it is
\* positive, and 1000 when the limit passed is zero or negative.
C2_StepsEqualLimitInForce ==
    (pc = "done" /\ Reducible(ret.term)) =>
        ret.steps = (IF call.limit > 0 THEN call.limit ELSE 1000)

C2_Witness ==
    /\ pc = "done"
    /\ Reducible(ret.term)
    /\ call.limit < 0
    /\ ret.steps = 1000

\* C3: if Reduce(t, L) returned (t', n) with n < L, then Reduce(t', L')
\* returns (t', 0), for L, L' > 0.
C3_NormalFormIdempotent ==
    ( /\ pc = "done"
      /\ prev # None
      /\ prev.call.limit > 0
      /\ call.limit > 0
      /\ prev.ret.steps < prev.call.limit )
        => /\ call.obj = prev.ret.term
           /\ ret = [term |-> prev.ret.term, steps |-> 0]

C3_Witness ==
    /\ pc = "done"
    /\ prev # None
    /\ prev.call.limit > 0
    /\ call.limit > 0
    /\ prev.ret.steps > 0
    /\ prev.ret.steps < prev.call.limit
    /\ ret.steps = 0

\* What holds all through a call Reduce(OMEGA, L).
OmegaRun ==
    (call.obj = OMEGA) =>
        /\ BetaReduce(OMEGA) = [term |-> OMEGA, reduced |-> TRUE]
        /\ (pc = "loop" => obj = OMEGA /\ steps = i /\ i <= limit)
        /\ (pc = "done" /\ call.limit > 0 =>
                ret = [term |-> OMEGA, steps |-> call.limit])

\* C4: Reduce terminates also on a term with no normal form: every
\* BetaReduce step of OMEGA reports reduced = true and yields OMEGA again,
\* and Reduce(OMEGA, L) for L > 0 returns (OMEGA, L).
C4_OmegaHalts ==
    /\ []OmegaRun
    /\ (pc = "entry" /\ call.obj = OMEGA) ~> (pc = "done" /\ call.obj = OMEGA)

C4_Witness ==
    /\ pc = "done"
    /\ prev = None
    /\ call.obj = OMEGA
    /\ call.limit = MaxLimit
    /\ ret = [term |-> OMEGA, steps |-> MaxLimit]

\* C7: BetaReduce on an application whose function side is an abstraction
\* contracts that redex, whatever redexes the body or the argument hold; so
\* (\x.\y.x) a OMEGA reaches the normal form a in exactly 2 steps.
C7_NormalOrder ==
    /\ (pc = "loop" /\ isApp(obj) /\ isAbs(obj.Func)) =>
            BetaReduce(obj) =
                [term |-> Substitute(obj.Func.Body, obj.Func.Param, obj.Arg),
                 reduced |-> TRUE]
    /\ (pc = "done" /\ call.obj = KaOmega /\ call.limit # 1) =>
            /\ ret = [term |-> Var("a"), steps |-> 2]
            /\ ~Reducible(ret.term)

C7_Witness ==
    /\ pc = "done"
    /\ call.obj = KaOmega
    /\ call.limit = 2
    /\ ret = [term |-> Var("a"), steps |-> 2]

C7_WitnessInnerRedex ==
    /\ pc = "loop"
    /\ isApp(obj) /\ isAbs(obj.Func)
    /\ Reducible(obj.Arg)

\* C15: for every term t and every limit <= 0, Reduce(t, limit) returns the
\* same term and step count as Reduce(t, 1000).
C15_NonPositiveLimitIsDefault ==
    ( /\ pc = "done"
      /\ prev # None
      /\ prev.call.limit <= 0
      /\ call = [op |-> "Reduce", obj |-> prev.call.obj, limit |-> 1000] )
        => ret = prev.ret

\* A term that needs more steps than any small limit: both calls run 1000
\* steps; and a term that reaches its normal form: both calls stop there.
C15_Witness ==
    /\ pc = "done"
    /\ prev # None
    /\ prev.call.limit < 0
    /\ call = [op |-> "Reduce", obj |-> OMEGA, limit |-> 1000]
    /\ ret = [term |-> OMEGA, steps |-> 1000]
    /\ ret = prev.ret

C15_WitnessNormalForm ==
    /\ pc = "done"
    /\ prev # None
    /\ prev.call.limit = 0
    /\ call = [op |-> "Reduce", obj |-> KaOmega, limit |-> 1000]
    /\ ret = [term |-> Var("a"), steps |-> 2]
    /\ ret = prev.ret

-----------------------------------------------------------------------------
(* Substitute as a call *)

MaxSubstSize == 4

MaxReplSize == 2

SubstNames == {"x", "y", "y0"}

SubstituteCall ==
    /\ pc = "entry"
    /\ call.op = "Substitute"
    /\ ret' = Substitute(call.t, call.varName, call.replacement)
    /\ pc' = "done"
    /\ UNCHANGED <<call, obj, limit, steps, i, prev, lazy, parses>>

InitSubstitute ==
    /\ pc = "entry"
    /\ \E t \in TermsUpTo(MaxSubstSize, SubstNames), x \in SubstNames,
          r \in TermsUpTo(MaxReplSize, SubstNames) :
          call = [op |-> "Substitute", t |-> t, varName |-> x,
                  replacement |-> r]
    /\ obj = None
    /\ limit = 0
    /\ steps = 0
    /\ i = 0
    /\ ret = None
    /\ prev = None
    /\ lazy = None
    /\ parses = 0

NextSubstitute == SubstituteCall

SpecSubstitute == InitSubstitute /\ [][NextSubstitute]_vars

-----------------------------------------------------------------------------
(* Claims about Substitute *)

\* A position in a term: the fields to follow from the root.
RECURSIVE FreeOccurrences(_, _)
FreeOccurrences(t, x) ==
    CASE isVar(t) -> IF t.Name = x THEN {<<>>} ELSE {}
      [] isAbs(t) ->
            IF t.Param = x THEN {}
            ELSE {<<"Body">> \o p : p \in FreeOccurrences(t.Body, x)}
      [] isApp(t) ->
            {<<"Func">> \o p : p \in FreeOccurrences(t.Func, x)}
                \cup {<<"Arg">> \o p : p \in FreeOccurrences(t.Arg, x)}

RECURSIVE HasPosition(_, _)
HasPosition(t, p) ==
    \/ p = <<>>
    \/ /\ Head(p) = "Body" /\ isAbs(t) /\ HasPosition(t.Body, Tail(p))
    \/ /\ Head(p) = "Func" /\ isApp(t) /\ HasPosition(t.Func, Tail(p))
    \/ /\ Head(p) = "Arg" /\ isApp(t) /\ HasPosition(t.Arg, Tail(p))

RECURSIVE SubtermAt(_, _)
SubtermAt(t, p) == IF p = <<>> THEN t ELSE SubtermAt(t[Head(p)], Tail(p))

\* The parameters of the abstractions above position p.
RECURSIVE BindersAbove(_, _)
BindersAbove(t, p) ==
    IF p = <<>> THEN {}
    ELSE (IF isAbs(t) THEN {t.Param} ELSE {})
            \cup BindersAbove(t[Head(p)], Tail(p))

\* No free variable of r is bound where r was put for a free occurrence of x.
NoCapture(t, x, r, res) ==
    \A p \in FreeOccurrences(t, x) :
        (HasPosition(res, p) /\ SubtermAt(res, p) = r) =>
            BindersAbove(res, p) \cap FreeVars(r) = {}

\* Where x is free in t, the free variables of r are free in the result.
ReplacementStaysFree(t, x, r, res) ==
    x \in FreeVars(t) => FreeVars(r) \subseteq FreeVars(res)

\* C5: no free variable of r becomes bound by a binder of t in
\* Substitute(t, x, r), and whenever x occurs free in t every free variable
\* of r is free in the result.
C5_CaptureAvoidance ==
    (pc = "done" /\ call.op = "Substitute") =>
        /\ NoCapture(call.t, call.varName, call.replacement, ret)
        /\ ReplacementStaysFree(call.t, call.varName, call.replacement, ret)

LamYX == Abstraction("y", Var("x"))

\* C6: Substitute(\y.x, x, y) is not \y.y: the bound y is renamed to the
\* first probe name and the result is exactly \y0.y.
C6_RenamesBinder ==
    ( /\ pc = "done"
      /\ call = [op |-> "Substitute", t |-> LamYX, varName |-> "x",
                 replacement |-> Var("y")] )
        => /\ ret = Abstraction("y0", Var("y"))
           /\ ret # Abstraction("y", Var("y"))

C6_Witness ==
    /\ pc = "done"
    /\ call = [op |-> "Substitute", t |-> LamYX, varName |-> "x",
               replacement |-> Var("y")]
    /\ ret = Abstraction("y0", Var("y"))

-----------------------------------------------------------------------------
(* String: the printed form *)

\* The two bytes 0xCE 0xBB of the letter lambda.
LambdaBytes == "@#"

RECURSIVE String(_)

Var_String(v) == v.Name

Abstraction_String(a) == LambdaBytes \o a.Param \o "." \o String(a.Body)

\* A plausible slip: an application on the argument side is not parenthesised.
Application_String_BareArg(a) ==
    LET funcStr == IF isAbs(a.Func) THEN "(" \o String(a.Func) \o ")"
                   ELSE String(a.Func)
        argStr  == IF isAbs(a.Arg) THEN "(" \o String(a.Arg) \o ")"
                   ELSE String(a.Arg)
    IN  funcStr \o " " \o argStr

Application_String(a) ==
    LET funcStr == IF isAbs(a.Func) THEN "(" \o String(a.Func) \o ")"
                   ELSE String(a.Func)
        argStr  == IF isApp(a.Arg) THEN "(" \o String(a.Arg) \o ")"
                   ELSE IF isAbs(a.Arg) THEN "(" \o String(a.Arg) \o ")"
                   ELSE String(a.Arg)
    IN  funcStr \o " " \o argStr

String(t) ==
    CASE isVar(t) -> Var_String(t)
      [] isAbs(t) -> Abstraction_String(t)
      [] isApp(t) -> Application_String(t)
      [] isLazy(t) -> String(LazyScript_parse(t))

-----------------------------------------------------------------------------
(* ChurchNumeral and the constants the parser resolves *)

RECURSIVE ChurchBody(_)
ChurchBody(n) ==
    IF n = 0 THEN Var("x") ELSE Application(Var("f"), ChurchBody(n - 1))

\* A plausible slip: the loop that builds the body runs once too often.
ChurchNumeralOneMore(n) ==
    Abstraction("f", Abstraction("x", ChurchBody(n + 1)))

ChurchNumeral(n) == Abstraction("f", Abstraction("x", ChurchBody(n)))

TRUE_ == K

FALSE_ == Abstraction("x", Abstraction("y", Var("y")))

AND == Abstraction("p", Abstraction("q",
            Application(Application(Var("p"), Var("q")), Var("p"))))

OR == Abstraction("p", Abstraction("q",
            Application(Application(Var("p"), Var("p")), Var("q"))))

NOT == Abstraction("p", Application(Application(Var("p"), FALSE_), TRUE_))

ZERO == Abstraction("f", Abstraction("x", Var("x")))

SUCC ==
    Abstraction("n", Abstraction("f", Abstraction("x",
        Application(Var("f"),
                    Application(Application(Var("n"), Var("f")), Var("x"))))))

ONE == Application(SUCC, ZERO)

PLUS ==
    Abstraction("m", Abstraction("n", Abstraction("f", Abstraction("x",
        Application(Application(Var("m"), Var("f")),
                    Application(Application(Var("n"), Var("f")), Var("x")))))))

MULT ==
    Abstraction("m", Abstraction("n", Abstraction("f",
        Application(Var("m"), Application(Var("n"), Var("f"))))))

POW == Abstraction("b", Abstraction("n", Application(Var("n"), Var("b"))))

\* The entries of lookupConstant's table that the model holds; the table's
\* other entries are terms of the library looked up in the same way.
constants ==
    [ _I |-> I, _K |-> K, _U |-> U, _OMEGA |-> OMEGA, _OMEGA_LOWER |-> U,
      _DELTA |-> U, _TRUE |-> TRUE_, _FALSE |-> FALSE_, _T |-> TRUE_,
      _F |-> FALSE_, _AND |-> AND, _OR |-> OR, _NOT |-> NOT,
      _ZERO |-> ZERO, _ONE |-> ONE, _SUCC |-> SUCC, _PLUS |-> PLUS,
      _MULT |-> MULT, _POW |-> POW ]

-----------------------------------------------------------------------------
(* Bytes and byte classes of the parser *)

\* What peek and peekRune return at the end of the input (Go: 0).
NUL == ""

\* What peekRune returns for the two bytes of the letter lambda.
LambdaRune == "U+03BB"

Letters ==
    {"a", "b", "c", "d", "e", "f", "g", "h", "i", "j", "k", "l", "m", "n",
     "o", "p", "q", "r", "s", "t", "u", "v", "w", "x", "y", "z",
     "A", "B", "C", "D", "E", "F", "G", "H", "I", "J", "K", "L", "M", "N",
     "O", "P", "Q", "R", "S", "T", "U", "V", "W", "X", "Y", "Z"}

Digits == {"0", "1", "2", "3", "4", "5", "6", "7", "8", "9"}

\* unicode.IsLetter(rune(b)) of a byte b: the byte 0xCE is the code point of
\* a Latin-1 letter, the byte 0xBB is not.
IsLetter(b) == b \in Letters \cup {"@"}

IsDigit(b) == b \in Digits

IsSpace(b) == b \in {" ", "\t", "\n", "\r", "\f"}

\* input[pos], positions counted from 0 as in Go.
ByteAt(input, pos) == SubSeq(input, pos + 1, pos + 1)

\* input[from:to]
Slice(input, from, to) == SubSeq(input, from + 1, to)

DigitValue(b) ==
    CASE b = "0" -> 0 [] b = "1" -> 1 [] b = "2" -> 2 [] b = "3" -> 3
      [] b = "4" -> 4 [] b = "5" -> 5 [] b = "6" -> 6 [] b = "7" -> 7
      [] b = "8" -> 8 [] b = "9" -> 9

RECURSIVE TrimLeft(_)
TrimLeft(str) ==
    IF Len(str) > 0 /\ IsSpace(ByteAt(str, 0))
    THEN TrimLeft(Slice(str, 1, Len(str))) ELSE str

RECURSIVE TrimRight(_)
TrimRight(str) ==
    IF Len(str) > 0 /\ IsSpace(ByteAt(str, Len(str) - 1))
    THEN TrimRight(Slice(str, 0, Len(str) - 1)) ELSE str

\* strings.TrimSpace
TrimSpace(str) == TrimRight(TrimLeft(str))

-----------------------------------------------------------------------------
(* lookupConstant *)

\* Go's int, 64 bits wide, written as four 16-bit limbs, the lowest first.
Limb == 65536

Int64(n) == <<n % Limb, (n \div Limb) % Limb, 0, 0>>

\* w * m + d, wrapped to 64 bits as Go wraps it.
Int64MulAdd(w, m, d) ==
    LET s0 == w[1] * m + d
        s1 == w[2] * m + (s0 \div Limb)
        s2 == w[3] * m + (s1 \div Limb)
        s3 == w[4] * m + (s2 \div Limb)
    IN  <<s0 % Limb, s1 % Limb, s2 % Limb, s3 % Limb>>

\* The sign bit of a 64-bit int.
Int64Negative(w) == w[4] >= Limb \div 2

\* The value of a non-negative int.
Int64ToInt(w) == w[1] + Limb * (w[2] + Limb * (w[3] + Limb * w[4]))

\* num = num*10 + int(name[i]-'0') for i = k, ..., len(name)-1
RECURSIVE DigitsValue(_, _, _)
DigitsValue(name, k, num) ==
    IF k >= Len(name) THEN num
    ELSE DigitsValue(name, k + 1,
                     Int64MulAdd(num, 10, DigitValue(ByteAt(name, k))))

\* ChurchNumeral's message when it panics (n < 0).
ChurchNumeralPanic ==
    "Church numerals are only defined for non-negative integers"

\* Returns, with obj and ok, whether the call panicked instead of returning.
lookupConstant(name) ==
    IF /\ Len(name) >= 2
       /\ ByteAt(name, 0) = "_"
       /\ \A k \in 1..(Len(name) - 1) : IsDigit(ByteAt(name, k))
    THEN LET num == DigitsValue(name, 1, Int64(0))
         IN  IF Int64Negative(num)
             THEN [obj |-> None, ok |-> FALSE, panic |-> TRUE]
             ELSE [obj |-> ChurchNumeral(Int64ToInt(num)), ok |-> TRUE,
                   panic |-> FALSE]
    ELSE IF name \in DOMAIN constants
    THEN [obj |-> constants[name], ok |-> TRUE, panic |-> FALSE]
    ELSE [obj |-> None, ok |-> FALSE, panic |-> FALSE]

-----------------------------------------------------------------------------
(* The parser.  Every method takes the input and the position p.pos and   *)
(* returns, with its result, the position it leaves in p.pos: an error    *)
(* does not restore the position.                                         *)

RECURSIVE skipWhitespace(_, _)
skipWhitespace(input, pos) ==
    IF pos < Len(input) /\ IsSpace(ByteAt(input, pos))
    THEN skipWhitespace(input, pos + 1) ELSE pos

peek(input, pos) == IF pos >= Len(input) THEN NUL ELSE ByteAt(input, pos)

peekRune(input, pos) ==
    IF pos >= Len(input) THEN NUL
    ELSE IF /\ pos + 1 < Len(input)
            /\ ByteAt(input, pos) = "@"
            /\ ByteAt(input, pos + 1) = "#"
    THEN LambdaRune
    ELSE ByteAt(input, pos)

RECURSIVE identifierEnd(_, _)
identifierEnd(input, pos) ==
    IF /\ pos < Len(input)
       /\ \/ IsLetter(ByteAt(input, pos))
          \/ IsDigit(ByteAt(input, pos))
          \/ ByteAt(input, pos) = "_"
    THEN identifierEnd(input, pos + 1) ELSE pos

parseIdentifier(input, pos) ==
    IF pos < Len(input)
       /\ (IsLetter(ByteAt(input, pos)) \/ ByteAt(input, pos) = "_")
    THEN LET stop == identifierEnd(input, pos + 1)
         IN  [name |-> Slice(input, pos, stop), pos |-> stop]
    ELSE [name |-> "", pos |-> pos]

Parsed(term, pos) ==
    [ok |-> TRUE, obj |-> term, err |-> "", pos |-> pos, panic |-> FALSE]

Failed(msg, pos) ==
    [ok |-> FALSE, obj |-> None, err |-> msg, pos |-> pos, panic |-> FALSE]

\* A panic: no method returns, the stack unwinds through every caller.
Panicked(msg, pos) ==
    [ok |-> FALSE, obj |-> None, err |-> msg, pos |-> pos, panic |-> TRUE]

RECURSIVE parseExpr(_, _)
RECURSIVE parseAbstraction(_, _)
RECURSIVE parseApplication(_, _)
RECURSIVE parseApplicationLoop(_, _, _)
RECURSIVE parseTerm(_, _)

parseExpr(input, pos0) ==
    LET pos == skipWhitespace(input, pos0)
    IN  IF pos >= Len(input) THEN Failed("unexpected end of input", pos)
        ELSE IF peekRune(input, pos) = LambdaRune \/ peek(input, pos) = "\\"
        THEN parseAbstraction(input, pos)
        ELSE parseApplication(input, pos)

parseAbstraction(input, pos0) ==
    IF ~(peekRune(input, pos0) = LambdaRune \/ peek(input, pos0) = "\\")
    THEN Failed("expected @# or \\ at position " \o ToString(pos0), pos0)
    ELSE
    LET pos1  == IF peekRune(input, pos0) = LambdaRune
                 THEN pos0 + Len(LambdaBytes) ELSE pos0 + 1
        pos2  == skipWhitespace(input, pos1)
        param == parseIdentifier(input, pos2)
        pos3  == skipWhitespace(input, param.pos)
    IN  IF param.name = ""
        THEN Failed("expected parameter name at position "
                        \o ToString(param.pos), param.pos)
        ELSE IF peek(input, pos3) # "."
        THEN Failed("expected '.' after parameter at position "
                        \o ToString(pos3), pos3)
        ELSE LET body == parseExpr(input, pos3 + 1)
             IN  IF ~body.ok THEN body
                 ELSE Parsed(Abstraction(param.name, body.obj), body.pos)

\* The loop of parseApplication, entered with the application built so far.
parseApplicationLoop(input, left, pos0) ==
    LET pos == skipWhitespace(input, pos0)
    IN  IF pos >= Len(input) THEN Parsed(left, pos)
        ELSE IF peek(input, pos) = ")" THEN Parsed(left, pos)
        ELSE LET right == parseTerm(input, pos)
             IN  IF right.panic THEN right
                 ELSE IF ~right.ok THEN Parsed(left, right.pos)
                 ELSE parseApplicationLoop(input,
                                           Application(left, right.obj),
                                           right.pos)

parseApplication(input, pos) ==
    LET left == parseTerm(input, pos)
    IN  IF ~left.ok THEN left
        ELSE parseApplicationLoop(input, left.obj, left.pos)

parseTerm(input, pos0) ==
    LET pos == skipWhitespace(input, pos0)
    IN  IF pos >= Len(input) THEN Failed("unexpected end of input", pos)
        ELSE IF peek(input, pos) = "("
        THEN LET expr == parseExpr(input, pos + 1)
                 pos1 == skipWhitespace(input, expr.pos)
             IN  IF ~expr.ok THEN expr
                 ELSE IF peek(input, pos1) # ")"
                 THEN Failed("expected ')' at position " \o ToString(pos1),
                             pos1)
                 ELSE Parsed(expr.obj, pos1 + 1)
        ELSE IF peekRune(input, pos) = LambdaRune \/ peek(input, pos) = "\\"
        THEN parseAbstraction(input, pos)
        ELSE LET id == parseIdentifier(input, pos)
             IN  IF id.name = ""
                 THEN Failed("expected variable or '(' at position "
                                 \o ToString(id.pos), id.pos)
                 ELSE IF ByteAt(id.name, 0) = "_"
                         /\ lookupConstant(id.name).panic
                 THEN Panicked(ChurchNumeralPanic, id.pos)
                 ELSE IF ByteAt(id.name, 0) = "_"
                         /\ lookupConstant(id.name).ok
                 THEN Parsed(lookupConstant(id.name).obj, id.pos)
                 ELSE Parsed(Var(id.name), id.pos)

Parse(input) ==
    LET text   == TrimSpace(input)
        result == parseExpr(text, 0)
        pos    == skipWhitespace(text, result.pos)
    IN  IF ~result.ok THEN result
        ELSE IF pos < Len(text)
        THEN Failed("unexpected characters after expression at position "
                        \o ToString(pos) \o ": \""
                        \o Slice(text, pos, Len(text)) \o "\"", pos)
        ELSE Parsed(result.obj, pos)

-----------------------------------------------------------------------------
(* Parse and String as calls *)

ParseCall ==
    /\ pc = "entry"
    /\ call.op = "Parse"
    /\ ret' = Parse(call.input)
    /\ pc' = "done"
    /\ UNCHANGED <<call, obj, limit, steps, i, prev, lazy, parses>>

StringCall ==
    /\ pc = "entry"
    /\ call.op = "String"
    /\ ret' = String(call.t)
    /\ pc' = "done"
    /\ UNCHANGED <<call, obj, limit, steps, i, prev, lazy, parses>>

\* A caller that parses what String printed: Parse(t.String()).
ParsePrinted ==
    /\ pc = "done"
    /\ call.op = "String"
    /\ call' = [op |-> "Parse", input |-> ret]
    /\ prev' = [call |-> call, ret |-> ret]
    /\ ret' = None
    /\ pc' = "entry"
    /\ UNCHANGED <<obj, limit, steps, i, lazy, parses>>

MaxInputLen == 4

InputBytes == {"f", "x", "(", ")", "\\", ".", " "}

RECURSIVE StringsUpTo(_, _)
StringsUpTo(n, bytes) ==
    IF n = 0 THEN {""}
    ELSE LET shorter == StringsUpTo(n - 1, bytes)
         IN  shorter \cup {str \o b : str \in shorter, b \in bytes}

\* The inputs of the parser's tests that the claims name.
TestInputs ==
    {"@#x.x)", "x y z)", "(@#x.x", "(\\x. x", "\\x. x)", "(((\\x. x)",
     "(\\x. x))", "@#x.", "@#x y", "123", "f (x y", "f x (\\x"}

ParseInputs == StringsUpTo(MaxInputLen, InputBytes) \cup TestInputs

InitParse ==
    /\ pc = "entry"
    /\ \E input \in ParseInputs : call = [op |-> "Parse", input |-> input]
    /\ obj = None
    /\ limit = 0
    /\ steps = 0
    /\ i = 0
    /\ ret = None
    /\ prev = None
    /\ lazy = None
    /\ parses = 0

NextParse == ParseCall

SpecParse == InitParse /\ [][NextParse]_vars

MaxPrintSize == 5

\* Identifiers of the form [A-Za-z_][A-Za-z0-9_]*.
PrintNames == {"y0", "_1", "_I", "_t"}

InitRoundTrip ==
    /\ pc = "entry"
    /\ \E t \in TermsUpTo(MaxPrintSize, PrintNames) :
          call = [op |-> "String", t |-> t]
    /\ obj = None
    /\ limit = 0
    /\ steps = 0
    /\ i = 0
    /\ ret = None
    /\ prev = None
    /\ lazy = None
    /\ parses = 0

NextRoundTrip ==
    \/ StringCall
    \/ ParsePrinted
    \/ ParseCall

SpecRoundTrip == InitRoundTrip /\ [][NextRoundTrip]_vars

-----------------------------------------------------------------------------
(* Claims about String and Parse *)

\* The state after Parse(t.String()) returned.
RoundTripDone ==
    /\ pc = "done"
    /\ call.op = "Parse"
    /\ prev # None
    /\ prev.call.op = "String"

\* C8 as claimed: for every term built from Var, Abstraction and
\* Application over identifiers [A-Za-z_][A-Za-z0-9_]*, Parse(t.String())
\* succeeds and returns a term structurally equal to t.
C8_RoundTrip ==
    RoundTripDone => (ret.ok /\ ret.obj = prev.call.t)

\* The names of the variables (not the parameters) of a term.
RECURSIVE VarNames(_)
VarNames(t) ==
    CASE isVar(t) -> {t.Name}
      [] isAbs(t) -> VarNames(t.Body)
      [] isApp(t) -> VarNames(t.Func) \cup VarNames(t.Arg)

\* A name the parser reads as a constant: an underscore followed by digits
\* only, or a name of the constant table.
IsConstantName(name) ==
    \/ /\ Len(name) >= 2
       /\ SubSeq(name, 1, 1) = "_"
       /\ \A k \in 2..Len(name) : SubSeq(name, k, k) \in Digits
    \/ name \in DOMAIN constants

\* C8 as amended: for every such term none of whose variables is named as
\* a constant (an underscore followed by digits only, or a registered
\* constant name), Parse(t.String()) succeeds and returns a term
\* structurally equal to t.
C8_RoundTripNoConstants ==
    (RoundTripDone /\ \A n \in VarNames(prev.call.t) : ~IsConstantName(n))
        => (ret.ok /\ ret.obj = prev.call.t)

C8_Witness ==
    /\ RoundTripDone
    /\ prev.call.t = Application(Var("_t"), Application(Var("y0"), Var("y0")))
    /\ call.input = "_t (y0 y0)"
    /\ ret.obj = prev.call.t

\* The grammar of the surface syntax:
\*   expr = abstraction | application     abstraction = lambda id "." expr
\*   application = term { term }          term = "(" expr ")" | abstraction | id
\* with whitespace allowed between tokens.
IsIdentifier(str) ==
    /\ Len(str) >= 1
    /\ SubSeq(str, 1, 1) \in Letters \cup {"_"}
    /\ \A k \in 2..Len(str) : SubSeq(str, k, k) \in Letters \cup Digits \cup {"_"}

RECURSIVE GExpr(_)
RECURSIVE GAbstraction(_)
RECURSIVE GApplication(_)
RECURSIVE GTerm(_)

GExpr(str) ==
    LET t == TrimSpace(str) IN GAbstraction(t) \/ GApplication(t)

GAbstraction(t) ==
    LET n    == Len(t)
        from == IF n >= 1 /\ SubSeq(t, 1, 1) = "\\" THEN 2
                ELSE IF n >= 2 /\ SubSeq(t, 1, 2) = LambdaBytes THEN 3
                ELSE 0
    IN  /\ from > 0
        /\ \E dot \in from..n :
              /\ SubSeq(t, dot, dot) = "."
              /\ IsIdentifier(TrimSpace(SubSeq(t, from, dot - 1)))
              /\ GExpr(SubSeq(t, dot + 1, n))

GTerm(t) ==
    LET n == Len(t)
    IN  \/ /\ n >= 2
           /\ SubSeq(t, 1, 1) = "("
           /\ SubSeq(t, n, n) = ")"
           /\ GExpr(SubSeq(t, 2, n - 1))
        \/ GAbstraction(t)
        \/ IsIdentifier(t)

GApplication(t) ==
    \/ GTerm(t)
    \/ \E k \in 1..(Len(t) - 1) :
          /\ GApplication(TrimSpace(SubSeq(t, 1, k)))
          /\ GTerm(TrimSpace(SubSeq(t, k + 1, Len(t))))

\* C9: Parse returns a term only if the whole trimmed input is one
\* well-formed expression; whenever characters remain after a valid
\* expression it returns an error, as for "lambda x.x)" and "x y z)".
C9_ConsumesWholeInput ==
    (pc = "done" /\ call.op = "Parse") =>
        /\ ret.ok => GExpr(call.input)
        /\ call.input \in {"@#x.x)", "x y z)"} => ~ret.ok

\* An operand that is an unclosed parenthesised expression: it opens with
\* "(" and that parenthesis is never closed.
RECURSIVE ParenDepthStaysOpen(_, _, _)
ParenDepthStaysOpen(b, k, depth) ==
    IF k > Len(b) THEN TRUE
    ELSE LET d == IF SubSeq(b, k, k) = "(" THEN depth + 1
                  ELSE IF SubSeq(b, k, k) = ")" THEN depth - 1
                  ELSE depth
         IN  d > 0 /\ ParenDepthStaysOpen(b, k + 1, d)

UnclosedParen(b) ==
    Len(b) >= 1 /\ SubSeq(b, 1, 1) = "(" /\ ParenDepthStaysOpen(b, 1, 0)

\* An operand that is an abstraction lacking its parameter or its ".": the
\* lambda symbol and then, at most, an identifier.
MalformedAbstraction(b) ==
    LET from == IF Len(b) >= 1 /\ SubSeq(b, 1, 1) = "\\" THEN 2
                ELSE IF Len(b) >= 2 /\ SubSeq(b, 1, 2) = LambdaBytes THEN 3
                ELSE 0
        rest == TrimSpace(SubSeq(b, from, Len(b)))
    IN  from > 0 /\ (rest = "" \/ IsIdentifier(rest))

\* The input is one or more operands followed by such an operand.
BadLaterOperand(input) ==
    LET t == TrimSpace(input)
    IN  \E k \in 1..(Len(t) - 1) :
           /\ GApplication(TrimSpace(SubSeq(t, 1, k)))
           /\ SubSeq(t, k, k) = " "
           /\ \/ UnclosedParen(SubSeq(t, k + 1, Len(t)))
              \/ MalformedAbstraction(SubSeq(t, k + 1, Len(t)))

\* C10: a syntax error inside a second or later operand of an application
\* (an unclosed parenthesised expression, an abstraction lacking its
\* parameter or its ".") makes Parse return an error, never the term parsed
\* so far.
C10_OperandErrorsReported ==
    (pc = "done" /\ call.op = "Parse" /\ BadLaterOperand(call.input))
        => ~ret.ok

-----------------------------------------------------------------------------
(* Shadowing *)

\* C17: for every abstraction \p.b and every replacement r,
\* Substitute(\p.b, p, r) returns \p.b structurally unchanged, also when p
\* is free in r.
C17_Shadowing ==
    (pc = "done" /\ isAbs(call.t) /\ call.t.Param = call.varName) =>
        ret = call.t

C17_Witness ==
    /\ pc = "done"
    /\ isAbs(call.t)
    /\ call.t.Param = call.varName
    /\ call.varName \in FreeVars(call.t.Body)
    /\ call.varName \in FreeVars(call.replacement)
    /\ ret = call.t

-----------------------------------------------------------------------------
(* freshVar as a call *)

MaxProbe == 2

FreshBases == {"x", "y"}

\* The names a probe can meet: the bases and their first numbered variants.
FreshNames ==
    FreshBases \cup {b \o ToString(k) : b \in FreshBases, k \in 0..MaxProbe}

freshVarCall ==
    /\ pc = "entry"
    /\ call.op = "freshVar"
    /\ ret' = freshVar(call.base, call.avoid)
    /\ pc' = "done"
    /\ UNCHANGED <<call, obj, limit, steps, i, prev, lazy, parses>>

InitFreshVar ==
    /\ pc = "entry"
    /\ \E b \in FreshBases, avoid \in SUBSET FreshNames :
          call = [op |-> "freshVar", base |-> b, avoid |-> avoid]
    /\ obj = None
    /\ limit = 0
    /\ steps = 0
    /\ i = 0
    /\ ret = None
    /\ prev = None
    /\ lazy = None
    /\ parses = 0

NextFreshVar == freshVarCall

SpecFreshVar == InitFreshVar /\ [][NextFreshVar]_vars

\* C16: freshVar(base, avoid) returns base when base is not in avoid;
\* otherwise base followed by the smallest k >= 0 such that base k is not in
\* avoid; the result is never a member of avoid.
C16_FreshVar ==
    (pc = "done") =>
        /\ ret \notin call.avoid
        /\ (call.base \notin call.avoid => ret = call.base)
        /\ (call.base \in call.avoid =>
                \E k \in 0..(MaxProbe + 1) :
                    /\ ret = call.base \o ToString(k)
                    /\ \A j \in 0..(k - 1) :
                           call.base \o ToString(j) \in call.avoid)

\* avoid {x, x0, x1} gives x2.
C16_Witness ==
    /\ pc = "done"
    /\ call.base = "x"
    /\ call.avoid = {"x", "x0", "x1"}
    /\ ret = "x2"

-----------------------------------------------------------------------------
(* EtaConvert: one step; returns the term and whether a step was made *)

RECURSIVE EtaConvert(_)

Var_EtaConvert(v) == [term |-> v, converted |-> FALSE]

\* A plausible slip: the rule fires without asking whether the parameter is
\* free in the function side.
Abstraction_EtaConvert_NoFreeCheck(a) ==
    IF /\ isApp(a.Body)
       /\ isVar(a.Body.Arg)
       /\ a.Body.Arg.Name = a.Param
    THEN [term |-> a.Body.Func, converted |-> TRUE]
    ELSE LET newBody == EtaConvert(a.Body)
         IN  IF newBody.converted
             THEN [term |-> Abstraction(a.Param, newBody.term),
                   converted |-> TRUE]
             ELSE [term |-> a, converted |-> FALSE]

Abstraction_EtaConvert(a) ==
    IF /\ isApp(a.Body)
       /\ isVar(a.Body.Arg)
       /\ a.Body.Arg.Name = a.Param
       /\ a.Param \notin FreeVars(a.Body.Func)
    THEN [term |-> a.Body.Func, converted |-> TRUE]
    ELSE LET newBody == EtaConvert(a.Body)
         IN  IF newBody.converted
             THEN [term |-> Abstraction(a.Param, newBody.term),
                   converted |-> TRUE]
             ELSE [term |-> a, converted |-> FALSE]

Application_EtaConvert(a) ==
    LET newFunc == EtaConvert(a.Func)
    IN  IF newFunc.converted
        THEN [term |-> Application(newFunc.term, a.Arg), converted |-> TRUE]
        ELSE LET newArg == EtaConvert(a.Arg)
             IN  IF newArg.converted
                 THEN [term |-> Application(a.Func, newArg.term),
                       converted |-> TRUE]
                 ELSE [term |-> a, converted |-> FALSE]

EtaConvert(t) ==
    CASE isVar(t) -> Var_EtaConvert(t)
      [] isAbs(t) -> Abstraction_EtaConvert(t)
      [] isApp(t) -> Application_EtaConvert(t)
      [] isLazy(t) -> EtaConvert(LazyScript_parse(t))

MaxEtaSize == 5

EtaNames == {"f", "x", "y"}

EtaConvertCall ==
    /\ pc = "entry"
    /\ call.op = "EtaConvert"
    /\ ret' = EtaConvert(call.t)
    /\ pc' = "done"
    /\ UNCHANGED <<call, obj, limit, steps, i, prev, lazy, parses>>

InitEta ==
    /\ pc = "entry"
    /\ \E t \in TermsUpTo(MaxEtaSize, EtaNames) :
          call = [op |-> "EtaConvert", t |-> t]
    /\ obj = None
    /\ limit = 0
    /\ steps = 0
    /\ i = 0
    /\ ret = None
    /\ prev = None
    /\ lazy = None
    /\ parses = 0

NextEta == EtaConvertCall

SpecEta == InitEta /\ [][NextEta]_vars

\* t is \p.(F p): an abstraction over an application to its own parameter.
IsEtaShape(t) ==
    /\ isAbs(t)
    /\ isApp(t.Body)
    /\ t.Body.Arg = Var(t.Param)

\* Some subterm of t is \q.(G q) with q not free in G.
RECURSIVE HasEtaRedex(_)
HasEtaRedex(t) ==
    CASE isVar(t) -> FALSE
      [] isAbs(t) -> \/ (IsEtaShape(t) /\ t.Param \notin FreeVars(t.Body.Func))
                     \/ HasEtaRedex(t.Body)
      [] isApp(t) -> HasEtaRedex(t.Func) \/ HasEtaRedex(t.Arg)

\* C18: EtaConvert on \p.(F p) returns (F, true) exactly when p is not free
\* in F; when p is free in F and no sub-position eta-reduces, it returns
\* (the term unchanged, false).
C18_EtaStep ==
    (pc = "done" /\ IsEtaShape(call.t)) =>
        LET p == call.t.Param
            F == call.t.Body.Func
        IN  /\ (ret = [term |-> F, converted |-> TRUE]) <=> (p \notin FreeVars(F))
            /\ (p \in FreeVars(F) /\ ~HasEtaRedex(call.t.Body)) =>
                    ret = [term |-> call.t, converted |-> FALSE]

\* \x.(x x) does not eta-reduce.
C18_Witness ==
    /\ pc = "done"
    /\ call.t = Abstraction("x", Application(Var("x"), Var("x")))
    /\ ret = [term |-> call.t, converted |-> FALSE]

\* \x.(f x) eta-reduces to f.
C18_WitnessFires ==
    /\ pc = "done"
    /\ call.t = Abstraction("x", Application(Var("f"), Var("x")))
    /\ ret = [term |-> Var("f"), converted |-> TRUE]

-----------------------------------------------------------------------------
(* The decoders ToInt and ToBool.  Each applies its argument to two markers, *)
(* runs the loop of Reduce on the application (pc = "loop", the steps of     *)
(* Reduce above; pc = "done" when that loop has returned) and reads the      *)
(* result off the reduced term (pc = "returned").                            *)

\* The limit ToInt and ToBool pass to Reduce.
DecodeLimit == 1000

RECURSIVE countApplications(_, _)
countApplications(term, funcName) ==
    CASE isVar(term) -> 0
      [] isApp(term) ->
            IF isVar(term.Func) /\ term.Func.Name = funcName
            THEN 1 + countApplications(term.Arg, funcName)
            ELSE countApplications(term.Arg, funcName)
      [] isAbs(term) -> countApplications(term.Body, funcName)
      [] OTHER -> 0

ToIntEnter ==
    /\ pc = "entry"
    /\ call.op = "ToInt"
    /\ obj' = Application(Application(call.term, Var("SUCC_MARKER")),
                          Var("ZERO_MARKER"))
    /\ limit' = ReduceLimit(DecodeLimit)
    /\ steps' = 0
    /\ i' = 0
    /\ pc' = "loop"
    /\ UNCHANGED <<call, ret, prev, lazy, parses>>

ToIntReturn ==
    /\ pc = "done"
    /\ call.op = "ToInt"
    /\ ret' = countApplications(ret.term, "SUCC_MARKER")
    /\ pc' = "returned"
    /\ UNCHANGED <<call, obj, limit, steps, i, prev, lazy, parses>>

ToBoolEnter ==
    /\ pc = "entry"
    /\ call.op = "ToBool"
    /\ obj' = Application(Application(call.term, Var("TRUE_MARKER")),
                          Var("FALSE_MARKER"))
    /\ limit' = ReduceLimit(DecodeLimit)
    /\ steps' = 0
    /\ i' = 0
    /\ pc' = "loop"
    /\ UNCHANGED <<call, ret, prev, lazy, parses>>

\* A plausible slip: the default is true.
ToBoolResultDefaultsTrue(result) ==
    IF isVar(result) /\ result.Name = "FALSE_MARKER" THEN FALSE ELSE TRUE

\* Which marker the reduced term is; false if it is neither.
ToBoolResult(result) ==
    IF isVar(result) /\ result.Name = "TRUE_MARKER" THEN TRUE
    ELSE FALSE

ToBoolReturn ==
    /\ pc = "done"
    /\ call.op = "ToBool"
    /\ ret' = ToBoolResult(ret.term)
    /\ pc' = "returned"
    /\ UNCHANGED <<call, obj, limit, steps, i, prev, lazy, parses>>

-----------------------------------------------------------------------------
(* Church numerals and Church arithmetic through the engine *)

MaxNumeral == 12

MaxOperand == 4

MaxPowBase == 2

MaxPowExp == 3

\* The limit the arithmetic tests pass to Reduce.
ArithLimit == 100

\* The limit of a caller that stops the reduction before its normal form.
EarlyLimit == 3

\* F m n for Church numerals m and n.
Arith(F, m, n) ==
    Application(Application(F, ChurchNumeral(m)), ChurchNumeral(n))

ArithTerms ==
    {Arith(F, m, n) : F \in {PLUS, MULT}, m \in 0..MaxOperand,
                      n \in 0..MaxOperand}
        \cup {Arith(POW, m, n) : m \in 0..MaxPowBase, n \in 0..MaxPowExp}

ChurchNumeralCall ==
    /\ pc = "entry"
    /\ call.op = "ChurchNumeral"
    /\ ret' = ChurchNumeral(call.n)
    /\ pc' = "done"
    /\ UNCHANGED <<call, obj, limit, steps, i, prev, lazy, parses>>

\* The term a finished call handed back.
ResultTerm ==
    CASE call.op = "ChurchNumeral" -> ret
      [] call.op = "Parse" -> ret.obj
      [] call.op = "Reduce" -> ret.term

\* A caller that decodes the term it was handed: ToInt(result).
DecodeResult ==
    /\ pc = "done"
    /\ call.op \in {"ChurchNumeral", "Parse", "Reduce"}
    /\ call' = [op |-> "ToInt", term |-> ResultTerm]
    /\ prev' = [call |-> call, ret |-> ret]
    /\ ret' = None
    /\ pc' = "entry"
    /\ UNCHANGED <<obj, limit, steps, i, lazy, parses>>

InitChurch ==
    /\ pc = "entry"
    /\ \/ \E n \in 0..MaxNumeral : call = [op |-> "ChurchNumeral", n |-> n]
       \/ \E n \in 0..MaxNumeral :
             call = [op |-> "Parse", input |-> "_" \o ToString(n)]
       \/ \E t \in ArithTerms, l \in {ArithLimit, EarlyLimit} :
             call = [op |-> "Reduce", obj |-> t, limit |-> l]
    /\ obj = None
    /\ limit = 0
    /\ steps = 0
    /\ i = 0
    /\ ret = None
    /\ prev = None
    /\ lazy = None
    /\ parses = 0

NextChurch ==
    \/ ChurchNumeralCall
    \/ ParseCall
    \/ ReduceEnter
    \/ ReduceStep
    \/ ReduceBreakOut
    \/ ReduceLimitReached
    \/ DecodeResult
    \/ ToIntEnter
    \/ ToIntReturn

SpecChurch == InitChurch /\ [][NextChurch]_vars

\* How many applications of f are nested around x in b; -1 when b is not of
\* that shape.
RECURSIVE Nesting(_)
Nesting(b) ==
    IF b = Var("x") THEN 0
    ELSE IF isApp(b) /\ b.Func = Var("f")
    THEN LET k == Nesting(b.Arg) IN IF k < 0 THEN -1 ELSE k + 1
    ELSE -1

\* t is \f.\x. with exactly n nested applications of f around x.
IsNumeralOf(t, n) ==
    /\ isAbs(t)
    /\ t.Param = "f"
    /\ isAbs(t.Body)
    /\ t.Body.Param = "x"
    /\ Nesting(t.Body.Body) = n

\* C19: for every n >= 0, ChurchNumeral(n) is \f.\x. with exactly n nested
\* applications of f around x, and ToInt(ChurchNumeral(n)) = n; the same
\* holds for the term Parse("_n") of the decimal constant _n.
C19_NumeralRoundTrip ==
    /\ (pc = "done" /\ call.op = "ChurchNumeral") => IsNumeralOf(ret, call.n)
    /\ (pc = "returned" /\ prev.call.op = "ChurchNumeral") =>
            ret = prev.call.n
    /\ \A n \in 0..MaxNumeral :
          /\ ( /\ pc = "done"
               /\ call.op = "Parse"
               /\ call.input = "_" \o ToString(n) ) =>
                  (ret.ok /\ IsNumeralOf(ret.obj, n))
          /\ ( /\ pc = "returned"
               /\ prev.call.op = "Parse"
               /\ prev.call.input = "_" \o ToString(n) ) =>
                  ret = n

C19_Witness ==
    /\ pc = "returned"
    /\ prev.call = [op |-> "Parse", input |-> "_10"]
    /\ IsNumeralOf(prev.ret.obj, 10)
    /\ ret = 10

C19_WitnessChurchNumeral ==
    /\ pc = "returned"
    /\ prev.call = [op |-> "ChurchNumeral", n |-> 5]
    /\ ret = 5

RECURSIVE Power(_, _)
Power(b, e) == IF e = 0 THEN 1 ELSE b * Power(b, e - 1)

\* The call Reduce(F m n, 100) of the arithmetic tests.
ArithCall(F, m, n) ==
    [op |-> "Reduce", obj |-> Arith(F, m, n), limit |-> ArithLimit]

\* C20: for Church numerals m, n in a bounded range, Reduce of PLUS m n
\* reaches a normal form that is the Church numeral m+n, and ToInt of the
\* reduced MULT m n and POW m n are m*n and m^n.
C20_ChurchArithmetic ==
    /\ \A m \in 0..MaxOperand, n \in 0..MaxOperand :
          /\ (pc = "done" /\ call = ArithCall(PLUS, m, n)) =>
                  /\ ~Reducible(ret.term)
                  /\ IsNumeralOf(ret.term, m + n)
          /\ (pc = "returned" /\ prev.call = ArithCall(PLUS, m, n)) =>
                  ret = m + n
          /\ (pc = "returned" /\ prev.call = ArithCall(MULT, m, n)) =>
                  ret = m * n
    /\ \A m \in 0..MaxPowBase, n \in 0..MaxPowExp :
          (pc = "returned" /\ prev.call = ArithCall(POW, m, n)) =>
              ret = Power(m, n)

\* POW 2 3 decodes to 8 although the reduced term carries renamed binders
\* (it is \x.\x0. with eight applications of x around x0).
C20_Witness ==
    /\ pc = "returned"
    /\ prev.call = ArithCall(POW, 2, 3)
    /\ ~IsNumeralOf(prev.ret.term, 8)
    /\ ~Reducible(prev.ret.term)
    /\ ret = 8

C20_WitnessMult ==
    /\ pc = "returned"
    /\ prev.call = ArithCall(MULT, 3, 4)
    /\ ret = 12

C20_WitnessPlus ==
    /\ pc = "returned"
    /\ prev.call = ArithCall(PLUS, 2, 3)
    /\ IsNumeralOf(prev.ret.term, 5)
    /\ ret = 5

-----------------------------------------------------------------------------
(* Parenthesis imbalance *)

\* strings.Contains
Contains(str, sub) ==
    \E k \in 0..(Len(str) - Len(sub)) : Slice(str, k, k + Len(sub)) = sub

\* The parentheses of the input read from left to right: -1 when a ')'
\* closes nothing, else the number of '(' left unclosed.
RECURSIVE ParenDepth(_, _, _)
ParenDepth(input, pos, depth) ==
    IF pos >= Len(input) THEN depth
    ELSE IF ByteAt(input, pos) = "(" THEN ParenDepth(input, pos + 1, depth + 1)
    ELSE IF ByteAt(input, pos) = ")"
    THEN IF depth = 0 THEN -1 ELSE ParenDepth(input, pos + 1, depth - 1)
    ELSE ParenDepth(input, pos + 1, depth)

\* C11: for input with unbalanced parentheses Parse returns an error that
\* states the exact imbalance: k unmatched '(' yield a message containing
\* "missing k closing parenthesis", an unmatched ')' yields a message
\* containing "unexpected ')'".
C11_ParenImbalanceReported ==
    (pc = "done" /\ call.op = "Parse") =>
        LET k == ParenDepth(call.input, 0, 0)
        IN  /\ (k > 0) =>
                  /\ ~ret.ok
                  /\ Contains(ret.err, "missing " \o ToString(k)
                                           \o " closing parenthesis")
            /\ (k < 0) =>
                  /\ ~ret.ok
                  /\ Contains(ret.err, "unexpected ')'")

\* What the parser answers on the four inputs the claim names.
C11_ParserMessages ==
    (pc = "done" /\ call.op = "Parse") =>
        /\ (call.input = "(\\x. x") => ret.err = "expected ')' at position 6"
        /\ (call.input = "(((\\x. x)") => ret.err = "expected ')' at position 9"
        /\ (call.input = "\\x. x)") =>
              ret.err = "unexpected characters after expression at position 5: \")\""
        /\ (call.input = "(\\x. x))") =>
              ret.err = "unexpected characters after expression at position 7: \")\""

-----------------------------------------------------------------------------
(* Constant resolution *)

MaxNameLen == 2

NameBytes == {"_", "0", "1", "I", "K", "t"}

AllDigits(str) ==
    Len(str) > 0 /\ \A k \in 0..(Len(str) - 1) : IsDigit(ByteAt(str, k))

\* Identifiers that start with an underscore: short ones over a few bytes
\* (of the digit strings those of at most two digits, whose numerals are
\* small), the names the tests use, and digit strings around the range of
\* int.
ConstantNames ==
    {"_" \o rest : rest \in {r \in StringsUpTo(MaxNameLen, NameBytes) :
                                 AllDigits(r) => Len(r) <= 2}}
        \cup {"_test", "_5", "_10", "_42", "_ZERO", "_ONE", "_TRUE",
              "_PLUS", "_OMEGA", "_007",
              "_9223372036854775808",
              "_18446744073709551616",
              "_18446744073709551619"}

InitConstants ==
    /\ pc = "entry"
    /\ \E name \in ConstantNames : call = [op |-> "Parse", input |-> name]
    /\ obj = None
    /\ limit = 0
    /\ steps = 0
    /\ i = 0
    /\ ret = None
    /\ prev = None
    /\ lazy = None
    /\ parses = 0

NextConstants == ParseCall

SpecConstants == InitConstants /\ [][NextConstants]_vars

\* The decimal value of a digit string (of at most 9 digits: the integers
\* of the model checker are 32 bits wide).
RECURSIVE DecimalValue(_)
DecimalValue(str) ==
    IF Len(str) = 0 THEN 0
    ELSE 10 * DecimalValue(Slice(str, 0, Len(str) - 1))
            + DigitValue(ByteAt(str, Len(str) - 1))

\* C12: constant resolution is total and never an error: an identifier
\* starting with '_' parses to ChurchNumeral(n) when the rest is a non-empty
\* digit string with decimal value n, to the registry entry when the name is
\* a registered constant, and otherwise to the free variable of that name.
C12_ConstantResolutionTotal ==
    (pc = "done" /\ call.op = "Parse") =>
        LET name == call.input
            rest == Slice(name, 1, Len(name))
        IN  /\ ret.ok
            /\ ~ret.panic
            /\ (AllDigits(rest) /\ Len(rest) <= 9) =>
                    IsNumeralOf(ret.obj, DecimalValue(rest))
            /\ (AllDigits(rest) /\ Len(rest) > 9) =>
                    \* these values are positive and larger than 3
                    /\ ~IsNumeralOf(ret.obj, 0)
                    /\ ~IsNumeralOf(ret.obj, 3)
            /\ (~AllDigits(rest) /\ name \in DOMAIN constants) =>
                    ret.obj = constants[name]
            /\ (~AllDigits(rest) /\ name \notin DOMAIN constants) =>
                    ret.obj = Var(name)

\* The part of C12 that holds: every name but the digit strings beyond the
\* range of int resolves as claimed.
C12_InRange ==
    (pc = "done" /\ call.op = "Parse") =>
        LET name == call.input
            rest == Slice(name, 1, Len(name))
        IN  /\ (AllDigits(rest) /\ Len(rest) <= 9) =>
                    (ret.ok /\ IsNumeralOf(ret.obj, DecimalValue(rest)))
            /\ (~AllDigits(rest) /\ name \in DOMAIN constants) =>
                    (ret.ok /\ ret.obj = constants[name])
            /\ (~AllDigits(rest) /\ name \notin DOMAIN constants) =>
                    (ret.ok /\ ret.obj = Var(name))

\* What the parser does beyond the range of int: 2^63 wraps to a negative
\* number and ChurchNumeral panics; 2^64 wraps to 0, 2^64 + 3 to 3.
C12_BeyondInt ==
    (pc = "done" /\ call.op = "Parse") =>
        /\ (call.input = "_9223372036854775808") =>
                (ret.panic /\ ret.err = ChurchNumeralPanic)
        /\ (call.input = "_18446744073709551616") =>
                (ret.ok /\ ret.obj = ChurchNumeral(0))
        /\ (call.input = "_18446744073709551619") =>
                (ret.ok /\ ret.obj = ChurchNumeral(3))

-----------------------------------------------------------------------------
(* LazyScript: one object, its fields script and parsed, and a caller that  *)
(* uses it through the six methods of Term.  The variable parses counts the *)
(* calls of Parse that the object's method parse has made.                  *)

\* MakeLazyScript: the script is stored, parsed is nil.
MakeLazyScript(script) == [script |-> script, parsed |-> None]

\* What parse does with the result r of Parse(l.script): the object after
\* the call, the term returned, one call of Parse counted, and whether the
\* call panicked (Parse returned an error; nothing is stored then).
parseStore(l, r) ==
    IF ~r.ok THEN [l |-> l, parsed |-> None, calls |-> 1, panic |-> TRUE]
    ELSE [l |-> [l EXCEPT !.parsed = r.obj], parsed |-> r.obj, calls |-> 1,
          panic |-> FALSE]

\* A plausible slip: parse does not look at the cache.
parseUncached(l) == parseStore(l, Parse(l.script))

\* l.parse(): Parse is called only while parsed is nil.
parse(l) ==
    IF l.parsed = None
    THEN parseStore(l, Parse(l.script))
    ELSE [l |-> l, parsed |-> l.parsed, calls |-> 0, panic |-> FALSE]

\* What the method named by the call returns on the term t.
Delegate(c, t) ==
    CASE c.op = "String" -> String(t)
      [] c.op = "FreeVars" -> FreeVars(t)
      [] c.op = "Substitute" -> Substitute(t, c.varName, c.replacement)
      [] c.op = "AlphaConvert" -> AlphaConvert(t, c.oldName, c.newName)
      [] c.op = "BetaReduce" -> BetaReduce(t)
      [] c.op = "EtaConvert" -> EtaConvert(t)

LazyNames == {"x", "y"}

\* The calls a caller makes on the object.
LazyCalls ==
    {[op |-> o] : o \in {"String", "FreeVars", "BetaReduce", "EtaConvert"}}
        \cup {[op |-> "Substitute", varName |-> v, replacement |-> Var(r)]
                 : v \in LazyNames, r \in LazyNames}
        \cup {[op |-> "AlphaConvert", oldName |-> o, newName |-> n]
                 : o \in LazyNames, n \in LazyNames}

\* Scripts of the library and of the tests, and one that does not parse.
LazyScripts ==
    {"\\x.x", "@#x.@#y.x", "x", "f x", "\\x. f x", "(\\x.x) y", "_K",
     "_I y", "@#p.p _FALSE _TRUE", "_SUCC _ZERO", "\\x.\\f. f x", "(\\x. x"}

\* One method call on the object: parse, then the method of the parsed term.
LazyScriptCall ==
    /\ pc \in {"entry", "done"}
    /\ \E c \in LazyCalls, p \in {parse(lazy)} :
          /\ call' = c
          /\ lazy' = p.l
          /\ parses' = parses + p.calls
          /\ IF p.panic
             THEN /\ pc' = "panicked"
                  /\ ret' = None
             ELSE /\ pc' = "done"
                  /\ ret' = Delegate(c, p.parsed)
    /\ prev' = IF pc = "done" THEN [call |-> call, ret |-> ret] ELSE None
    /\ UNCHANGED <<obj, limit, steps, i>>

InitLazyScript ==
    /\ pc = "entry"
    /\ call = None
    /\ obj = None
    /\ limit = 0
    /\ steps = 0
    /\ i = 0
    /\ ret = None
    /\ prev = None
    /\ \E script \in LazyScripts : lazy = MakeLazyScript(script)
    /\ parses = 0

NextLazyScript == LazyScriptCall

SpecLazyScript == InitLazyScript /\ [][NextLazyScript]_vars

\* What holds in every state of the object's life.
LazyScriptState ==
    /\ (pc = "entry") => (lazy.parsed = None /\ parses = 0)
    /\ (pc = "done") =>
          /\ parses = 1
          /\ lazy.parsed = Parse(lazy.script).obj
          /\ ret = Delegate(call, lazy.parsed)
    /\ (pc = "panicked") => (lazy.parsed = None /\ parses = 1)

\* What holds of every step once the first access has stored its result.
LazyScriptStep ==
    /\ lazy'.script = lazy.script
    /\ (lazy.parsed # None) => (lazy'.parsed = lazy.parsed /\ parses' = parses)

\* C13: MakeLazyScript performs no parsing; the first access through one of
\* the six methods parses the text and stores the result; after that the
\* text is never parsed again, the cached term never changes, and the script
\* is never modified.
C13_MemoizeOnce == []LazyScriptState /\ [][LazyScriptStep]_vars

\* A second access, by another method, after the first one stored the term.
C13_Witness ==
    /\ pc = "done"
    /\ prev # None
    /\ prev.call.op = "String"
    /\ call.op = "BetaReduce"
    /\ lazy = [script |-> "(\\x.x) y",
               parsed |-> Application(Abstraction("x", Var("x")), Var("y"))]
    /\ parses = 1
    /\ ret = [term |-> Var("y"), reduced |-> TRUE]

-----------------------------------------------------------------------------
(* A LazyScript inside a term *)

\* t with every LazyScript replaced by the term it parses to.
RECURSIVE Expand(_)
Expand(t) ==
    CASE isVar(t) -> t
      [] isAbs(t) -> Abstraction(t.Param, Expand(t.Body))
      [] isApp(t) -> Application(Expand(t.Func), Expand(t.Arg))
      [] isLazy(t) -> Expand(LazyScript_parse(t))

\* MakeLazyScript(script) as a term, with the term its parse() returns.
LazyTerm(script) == LazyScript(script, Parse(script).obj)

ProxyScripts ==
    {"\\x.x", "f z", "_K", "x", "_TRUE", "_FALSE", "_2", "(\\x.x) y",
     "TRUE_MARKER", "\\f.\\x.f x", "_OMEGA"}

\* The positions a LazyScript d is put in: alone, as the function side and
\* the argument side of an application, as the body of an abstraction, and
\* under the combinators I and K.
ProxyContexts(d) ==
    {d,
     Application(d, Var("y")),
     Application(Var("y"), d),
     Abstraction("z", d),
     Abstraction("z", Application(d, Var("z"))),
     Application(Application(d, Var("a")), Var("b")),
     Application(I, d),
     Application(K, d)}

ProxyTerms == UNION {ProxyContexts(LazyTerm(sc)) : sc \in ProxyScripts}

FreeVarsCall ==
    /\ pc = "entry"
    /\ call.op = "FreeVars"
    /\ ret' = FreeVars(call.t)
    /\ pc' = "done"
    /\ UNCHANGED <<call, obj, limit, steps, i, prev, lazy, parses>>

BetaReduceCall ==
    /\ pc = "entry"
    /\ call.op = "BetaReduce"
    /\ ret' = BetaReduce(call.t)
    /\ pc' = "done"
    /\ UNCHANGED <<call, obj, limit, steps, i, prev, lazy, parses>>

\* The call has returned to its caller.
ProxyCallOver ==
    \/ pc = "done" /\ call.op \in {"String", "FreeVars", "BetaReduce",
                                   "EtaConvert"}
    \/ pc = "returned"

\* A caller that makes the same call on the term with every LazyScript
\* replaced by the term it parses to.
CallOnExpanded ==
    /\ ProxyCallOver
    /\ prev = None
    /\ call' = IF call.op \in {"ToInt", "ToBool"}
               THEN [call EXCEPT !.term = Expand(call.term)]
               ELSE [call EXCEPT !.t = Expand(call.t)]
    /\ prev' = [call |-> call, ret |-> ret]
    /\ ret' = None
    /\ pc' = "entry"
    /\ UNCHANGED <<obj, limit, steps, i, lazy, parses>>

InitProxy ==
    /\ pc = "entry"
    /\ \E t \in ProxyTerms :
          \/ \E o \in {"String", "FreeVars", "BetaReduce", "EtaConvert"} :
                call = [op |-> o, t |-> t]
          \/ \E o \in {"ToInt", "ToBool"} : call = [op |-> o, term |-> t]
    /\ obj = None
    /\ limit = 0
    /\ steps = 0
    /\ i = 0
    /\ ret = None
    /\ prev = None
    /\ lazy = None
    /\ parses = 0

NextProxy ==
    \/ StringCall
    \/ FreeVarsCall
    \/ BetaReduceCall
    \/ EtaConvertCall
    \/ ToIntEnter
    \/ ToBoolEnter
    \/ ReduceStep
    \/ ReduceBreakOut
    \/ ReduceLimitReached
    \/ ToIntReturn
    \/ ToBoolReturn
    \/ CallOnExpanded

SpecProxy == InitProxy /\ [][NextProxy]_vars

\* Both calls are over: the one on the term that holds the LazyScript (prev)
\* and the one on the expanded term.
BothCallsOver(ops) == ProxyCallOver /\ prev # None /\ call.op \in ops

ProxyString == BothCallsOver({"String"}) => ret = prev.ret

ProxyFreeVars == BothCallsOver({"FreeVars"}) => ret = prev.ret

ProxyBetaReduce ==
    BothCallsOver({"BetaReduce"}) =>
        /\ ret.reduced = prev.ret.reduced
        /\ Expand(ret.term) = Expand(prev.ret.term)

ProxyEtaConvert ==
    BothCallsOver({"EtaConvert"}) =>
        /\ ret.converted = prev.ret.converted
        /\ Expand(ret.term) = Expand(prev.ret.term)

ProxyToInt == BothCallsOver({"ToInt"}) => ret = prev.ret

ProxyToBool == BothCallsOver({"ToBool"}) => ret = prev.ret

\* C14: for every term containing a LazyScript d in any position, String,
\* FreeVars, BetaReduce, EtaConvert, ToInt and ToBool give exactly the result
\* they give on the same term with d replaced by the term it parses to.
C14_TransparentProxy ==
    /\ ProxyString
    /\ ProxyFreeVars
    /\ ProxyBetaReduce
    /\ ProxyEtaConvert
    /\ ProxyToInt
    /\ ProxyToBool

\* What the code returns where it differs: String gives a LazyScript no
\* parentheses, and the eta rule does not see an application behind a
\* LazyScript.
C14_Divergences ==
    (pc = "done" /\ prev = None) =>
        /\ (call = [op |-> "String",
                    t |-> Application(LazyTerm("\\x.x"), Var("y"))]) =>
                (ret = "@#x.x y" /\ String(Expand(call.t)) = "(@#x.x) y")
        /\ (call = [op |-> "String",
                    t |-> Application(Var("y"), LazyTerm("f z"))]) =>
                (ret = "y f z" /\ String(Expand(call.t)) = "y (f z)")
        /\ (call = [op |-> "EtaConvert",
                    t |-> Abstraction("z", LazyTerm("f z"))]) =>
                /\ ret = [term |-> call.t, converted |-> FALSE]
                /\ EtaConvert(Expand(call.t))
                      = [term |-> Var("f"), converted |-> TRUE]

-----------------------------------------------------------------------------
(* The decoders on terms that are not Church numerals or Church booleans *)

MaxDecodeSize == 4

DecodeNames == {"x", "y"}

\* \x.\y.TRUE_MARKER: a term that mentions the name of a marker.
NamesTrueMarker ==
    Abstraction("x", Abstraction("y", Var("TRUE_MARKER")))

\* \f.\x.g (f (f x)): its result applies g to a chain of two successors.
OtherFunctionOnChain ==
    Abstraction("f", Abstraction("x",
        Application(Var("g"),
                    Application(Var("f"), Application(Var("f"), Var("x"))))))

\* \f.\x.\z.f x: its result is an abstraction over a chain of one successor.
ChainUnderBinder ==
    Abstraction("f", Abstraction("x", Abstraction("z",
        Application(Var("f"), Var("x")))))

\* \a.\b.(\z.z) a: reduces to the first of its two arguments.
TrueAfterAStep ==
    Abstraction("a", Abstraction("b", Application(I, Var("a"))))

DecodeTerms ==
    TermsUpTo(MaxDecodeSize, DecodeNames)
        \cup {ChurchNumeral(n) : n \in 0..3}
        \cup {TRUE_, FALSE_, I, OMEGA, KaOmega, Var("SUCC_MARKER"),
              Var("TRUE_MARKER"), NamesTrueMarker, OtherFunctionOnChain,
              ChainUnderBinder, TrueAfterAStep}

InitDecode ==
    /\ pc = "entry"
    /\ \E t \in DecodeTerms, op \in {"ToInt", "ToBool"} :
          call = [op |-> op, term |-> t]
    /\ obj = None
    /\ limit = 0
    /\ steps = 0
    /\ i = 0
    /\ ret = None
    /\ prev = None
    /\ lazy = None
    /\ parses = 0

NextDecode ==
    \/ ToIntEnter
    \/ ToBoolEnter
    \/ ReduceStep
    \/ ReduceBreakOut
    \/ ReduceLimitReached
    \/ ToIntReturn
    \/ ToBoolReturn

SpecDecode == InitDecode /\ [][NextDecode]_vars

\* The term a decoder hands to Reduce: t applied to its two markers.
OnMarkers(t, first, second) ==
    Application(Application(t, Var(first)), Var(second))

\* The decoder's call of Reduce is over: obj is what steps BetaReduce steps
\* make of start, and Reduce stopped at the cap or at a term that cannot step.
DecoderReduced(start) ==
    /\ steps <= DecodeLimit
    /\ obj = BetaIter(start, steps)
    /\ (steps < DecodeLimit) => ~Reducible(obj)

C21_WitnessTrue ==
    /\ pc = "returned"
    /\ call.op = "ToBool"
    /\ call.term = TRUE_
    /\ ret = TRUE

C21_WitnessNumeral ==
    /\ pc = "returned"
    /\ call.op = "ToBool"
    /\ call.term = ChurchNumeral(2)
    /\ ret = FALSE

\* A term that mentions the first marker by name is taken for true.
C21_NamedMarker ==
    (pc = "returned" /\ call.op = "ToBool" /\ call.term = NamesTrueMarker)
        => ret = TRUE

\* k if t is the successor marker applied k times to the zero marker, -1 if
\* t does not have that shape.
RECURSIVE MarkerChain(_)
MarkerChain(t) ==
    IF t = Var("ZERO_MARKER") THEN 0
    ELSE IF isApp(t) /\ t.Func = Var("SUCC_MARKER")
    THEN LET k == MarkerChain(t.Arg) IN IF k < 0 THEN -1 ELSE k + 1
    ELSE -1

\* C22: ToInt never raises and returns 0 whenever the reduced term does not
\* have the shape of the successor marker applied k times to the zero
\* marker.
C22_ToIntDefaultsZero ==
    /\ (call # None /\ call.op = "ToInt") => pc # "panicked"
    /\ (pc = "returned" /\ call.op = "ToInt") =>
          /\ ret \in Nat
          /\ DecoderReduced(OnMarkers(call.term, "SUCC_MARKER",
                                      "ZERO_MARKER"))
          /\ (MarkerChain(obj) < 0) => ret = 0

\* What ToInt returns: on a chain of k successors k, on a free variable 0;
\* under another function or under a binder it still counts the chain.
C22_CountsUnderOtherTerms ==
    (pc = "returned" /\ call.op = "ToInt") =>
        /\ ret \in Nat
        /\ (MarkerChain(obj) >= 0) => ret = MarkerChain(obj)
        /\ isVar(call.term) => ret = 0
        /\ (call.term = OtherFunctionOnChain) =>
              /\ obj = Application(Var("g"),
                           Application(Var("SUCC_MARKER"),
                               Application(Var("SUCC_MARKER"),
                                           Var("ZERO_MARKER"))))
              /\ ret = 2
        /\ (call.term = ChainUnderBinder) => ret = 1

-----------------------------------------------------------------------------
(* BetaReduce as a call *)

MaxBetaSize == 5

BetaNames == {"x", "y", "y0"}

\* ((\x.x) y) ((\x.x) x): neither side is an abstraction, both can step.
BothSidesStep ==
    Application(Application(I, Var("y")), Application(I, Var("x")))

\* f ((\x.x) x): only the argument side can step.
OnlyArgSteps == Application(Var("f"), Application(I, Var("x")))

BetaTerms ==
    TermsUpTo(MaxBetaSize, BetaNames)
        \cup {BothSidesStep, OnlyArgSteps, OMEGA, KaOmega, OmegaI,
              RedexInArg, RedexInBody}

InitBetaReduce ==
    /\ pc = "entry"
    /\ \E t \in BetaTerms : call = [op |-> "BetaReduce", t |-> t]
    /\ obj = None
    /\ limit = 0
    /\ steps = 0
    /\ i = 0
    /\ ret = None
    /\ prev = None
    /\ lazy = None
    /\ parses = 0

MaxBetaSteps == 3

\* The caller calls BetaReduce on the term it was handed; prev keeps its
\* first call.
BetaReduceAgain ==
    /\ pc = "done"
    /\ call.op = "BetaReduce"
    /\ ret.reduced
    /\ i < MaxBetaSteps
    /\ call' = [op |-> "BetaReduce", t |-> ret.term]
    /\ prev' = IF prev = None THEN [call |-> call, ret |-> ret] ELSE prev
    /\ i' = i + 1
    /\ ret' = None
    /\ pc' = "entry"
    /\ UNCHANGED <<obj, limit, steps, lazy, parses>>

NextBetaReduce == BetaReduceCall \/ BetaReduceAgain

SpecBetaReduce == InitBetaReduce /\ [][NextBetaReduce]_vars

\* C23: on an application whose function side is not an abstraction,
\* BetaReduce steps inside the function side if that side can step and
\* returns the application with the argument unchanged; only if the
\* function side cannot step does it step inside the argument, leaving the
\* function side unchanged; if neither can step it returns (t, false).
C23_FunctionSideFirst ==
    (pc = "done" /\ call.op = "BetaReduce" /\ isApp(call.t)
        /\ ~isAbs(call.t.Func)) =>
        LET t == call.t
        IN  /\ Reducible(t.Func) =>
                  /\ ret.reduced
                  /\ ret.term = Application(BetaReduce(t.Func).term, t.Arg)
            /\ (~Reducible(t.Func) /\ Reducible(t.Arg)) =>
                  /\ ret.reduced
                  /\ ret.term = Application(t.Func, BetaReduce(t.Arg).term)
            /\ (~Reducible(t.Func) /\ ~Reducible(t.Arg)) =>
                  /\ ~ret.reduced
                  /\ ret.term = t

\* Both sides can step: the function side is stepped, the argument is not.
C23_Witness ==
    /\ pc = "done"
    /\ call.op = "BetaReduce"
    /\ call.t = BothSidesStep
    /\ ret = [term |-> Application(Var("y"), Application(I, Var("x"))),
              reduced |-> TRUE]

C23_WitnessArg ==
    /\ pc = "done"
    /\ call.op = "BetaReduce"
    /\ call.t = OnlyArgSteps
    /\ ret = [term |-> Application(Var("f"), Var("x")), reduced |-> TRUE]

-----------------------------------------------------------------------------
(* AlphaConvert as a call *)

MaxAlphaSize == 4

AlphaNames == {"x", "y", "z"}

AlphaConvertCall ==
    /\ pc = "entry"
    /\ call.op = "AlphaConvert"
    /\ ret' = AlphaConvert(call.t, call.oldName, call.newName)
    /\ pc' = "done"
    /\ UNCHANGED <<call, obj, limit, steps, i, prev, lazy, parses>>

InitAlpha ==
    /\ pc = "entry"
    /\ \E t \in TermsUpTo(MaxAlphaSize, AlphaNames), o \in AlphaNames,
          n \in AlphaNames :
          call = [op |-> "AlphaConvert", t |-> t, oldName |-> o,
                  newName |-> n]
    /\ obj = None
    /\ limit = 0
    /\ steps = 0
    /\ i = 0
    /\ ret = None
    /\ prev = None
    /\ lazy = None
    /\ parses = 0

NextAlpha == AlphaConvertCall

SpecAlpha == InitAlpha /\ [][NextAlpha]_vars

\* The names of t: its variable references and its parameters.
RECURSIVE NamesOf(_)
NamesOf(t) ==
    CASE isVar(t) -> {t.Name}
      [] isAbs(t) -> {t.Param} \cup NamesOf(t.Body)
      [] isApp(t) -> NamesOf(t.Func) \cup NamesOf(t.Arg)

\* res has the tree shape of t, and at every place the name of t, with
\* newName where t has oldName.
RECURSIVE RenamedAlike(_, _, _, _)
RenamedAlike(t, res, oldName, newName) ==
    LET to(n) == IF n = oldName THEN newName ELSE n
    IN  /\ res.tag = t.tag
        /\ CASE isVar(t) -> res.Name = to(t.Name)
             [] isAbs(t) -> /\ res.Param = to(t.Param)
                            /\ RenamedAlike(t.Body, res.Body, oldName,
                                            newName)
             [] isApp(t) -> /\ RenamedAlike(t.Func, res.Func, oldName,
                                            newName)
                            /\ RenamedAlike(t.Arg, res.Arg, oldName, newName)

-----------------------------------------------------------------------------
(* LazyScript.parse called by several goroutines on one object.  Nothing   *)
(* orders the accesses to the field parsed, an interface value of two      *)
(* machine words (the type word and the data word): each store and each    *)
(* load of a word is a step of its own.  Here pc, obj and ret are functions *)
(* of the goroutine: its position, its local variable parsed, the value it *)
(* loaded for its return.  call holds the order in which the build stores  *)
(* the two words.                                                          *)

NumGoroutines == 2

Goroutines == 1..NumGoroutines

RaceScripts == {"x", "\\x.x", "f x"}

\* The word of the nil interface value.
NilWord == "nil"

\* if l.parsed == nil: the test reads the type word.
RaceCheck(g) ==
    /\ pc[g] = "check"
    /\ pc' = [pc EXCEPT ![g] = IF lazy.tab = NilWord THEN "parse"
                               ELSE "load"]
    /\ UNCHANGED <<call, obj, limit, steps, i, ret, prev, lazy, parses>>

\* parsed, err := Parse(l.script)
RaceParse(g) ==
    /\ pc[g] = "parse"
    /\ obj' = [obj EXCEPT ![g] = Parse(lazy.script).obj]
    /\ parses' = parses + 1
    /\ pc' = [pc EXCEPT ![g] = "store"]
    /\ UNCHANGED <<call, limit, steps, i, ret, prev, lazy>>

\* l.parsed = parsed, the first word stored.
RaceStoreFirst(g) ==
    /\ pc[g] = "store"
    /\ lazy' = IF call.tabFirst THEN [lazy EXCEPT !.tab = obj[g].tag]
               ELSE [lazy EXCEPT !.data = obj[g]]
    /\ pc' = [pc EXCEPT ![g] = "store2"]
    /\ UNCHANGED <<call, obj, limit, steps, i, ret, prev, parses>>

\* l.parsed = parsed, the second word stored.
RaceStoreSecond(g) ==
    /\ pc[g] = "store2"
    /\ lazy' = IF call.tabFirst THEN [lazy EXCEPT !.data = obj[g]]
               ELSE [lazy EXCEPT !.tab = obj[g].tag]
    /\ pc' = [pc EXCEPT ![g] = "load"]
    /\ UNCHANGED <<call, obj, limit, steps, i, ret, prev, parses>>

\* return l.parsed, the type word loaded.
RaceLoadTab(g) ==
    /\ pc[g] = "load"
    /\ ret' = [ret EXCEPT ![g] = [tab |-> lazy.tab, data |-> None]]
    /\ pc' = [pc EXCEPT ![g] = "load2"]
    /\ UNCHANGED <<call, obj, limit, steps, i, prev, lazy, parses>>

\* return l.parsed, the data word loaded: the caller has its term.
RaceLoadData(g) ==
    /\ pc[g] = "load2"
    /\ ret' = [ret EXCEPT ![g].data = lazy.data]
    /\ pc' = [pc EXCEPT ![g] = "returned"]
    /\ UNCHANGED <<call, obj, limit, steps, i, prev, lazy, parses>>

InitRace ==
    /\ pc = [g \in Goroutines |-> "check"]
    /\ \E b \in BOOLEAN : call = [op |-> "parse", tabFirst |-> b]
    /\ \E script \in RaceScripts :
          lazy = [script |-> script, tab |-> NilWord, data |-> None]
    /\ obj = [g \in Goroutines |-> None]
    /\ ret = [g \in Goroutines |-> None]
    /\ limit = 0
    /\ steps = 0
    /\ i = 0
    /\ prev = None
    /\ parses = 0

NextRace ==
    \E g \in Goroutines :
        \/ RaceCheck(g)
        \/ RaceParse(g)
        \/ RaceStoreFirst(g)
        \/ RaceStoreSecond(g)
        \/ RaceLoadTab(g)
        \/ RaceLoadData(g)

SpecRace == InitRace /\ [][NextRace]_vars

\* The value is the interface value of the term t: both words are t's.
WholeValueOf(v, t) == v.tab = t.tag /\ v.data = t

\* C25: under concurrent first accesses the text may be parsed more than
\* once, but every caller observes a term structurally identical to the
\* single-threaded parse result, and the cache, once written, only ever
\* holds such a term.
C25_RacingCallersSeeTheTerm ==
    LET t == Parse(lazy.script).obj
    IN  /\ parses <= NumGoroutines
        /\ \A g \in Goroutines :
              pc[g] = "returned" => WholeValueOf(ret[g], t)
        /\ (lazy.tab # NilWord /\ \A g \in Goroutines : pc[g] # "store2")
              => WholeValueOf(lazy, t)

\* What holds of the race: Parse is called at most once per caller, and may
\* be called by every one of them; a word of the cache, once stored, keeps
\* its value; a caller that stored the cache itself, and every caller of a
\* build that stores the data word first, returns the whole term.
C25_RaceOutcomes ==
    LET t == Parse(lazy.script).obj
    IN  /\ parses <= NumGoroutines
        /\ lazy.tab \in {NilWord, t.tag}
        /\ lazy.data \in {None, t}
        /\ \A g \in Goroutines :
              (pc[g] = "returned" /\ (obj[g] # None \/ ~call.tabFirst)) =>
                  WholeValueOf(ret[g], t)

\* The text is parsed by every caller.
C25_ParsedTwice == parses = NumGoroutines

\* A caller returns the type word of the term with a nil data word.
C25_TornValue ==
    \E g \in Goroutines :
        /\ pc[g] = "returned"
        /\ ret[g].tab # NilWord
        /\ ret[g].data = None

-----------------------------------------------------------------------------
(* A registry whose entries are LazyScripts that name each other.  Here    *)
(* call holds the registry (name -> script) and the entry accessed, lazy   *)
(* the field parsed of every entry, obj the stack of the method calls in   *)
(* progress (the term each call is on, and how many of its children it has *)
(* called), parses the calls of Parse, i the accesses made.  The method is *)
(* one that calls itself on every child, as FreeVars and String do.        *)

\* The deepest stack of calls the runtime grants before it ends the program.
MaxStack == 16

MaxAccesses == 3

\* The pointer to the registry's LazyScript of that name.
EntryOf(name) == [tag |-> "Lazy", entry |-> name]

\* GCD names MOD, as in the library.
RegistryChain ==
    [_GCD |-> "\\a.\\b._MOD a b", _MOD |-> "\\m.\\n.m"]

\* A definition that names itself under an abstraction.
RegistrySelf == [_REC |-> "\\n._REC n"]

\* Two definitions that name each other.
RegistryMutual == [_GCD |-> "\\a._MOD a", _MOD |-> "\\m._GCD m"]

\* POWMOD names MOD and MUL, MUL names MOD.
RegistryShared ==
    [_POWMOD |-> "\\a._MOD (_MUL a a)", _MUL |-> "\\x._MOD x",
     _MOD |-> "\\m.m"]

Registries == {RegistryChain, RegistryShared, RegistrySelf, RegistryMutual}

\* The term with every name the registry defines resolved to its entry:
\* parseTerm returns the object lookupConstant finds, as it is.
RECURSIVE ResolveNames(_, _)
ResolveNames(t, registry) ==
    CASE isVar(t) -> IF t.Name \in DOMAIN registry THEN EntryOf(t.Name)
                     ELSE t
      [] isAbs(t) -> Abstraction(t.Param, ResolveNames(t.Body, registry))
      [] isApp(t) -> Application(ResolveNames(t.Func, registry),
                                 ResolveNames(t.Arg, registry))

\* Parse with the names of the registry as constants.
ResolveResult(r, registry) ==
    IF r.ok THEN [r EXCEPT !.obj = ResolveNames(r.obj, registry)] ELSE r

ParseWith(registry, script) == ResolveResult(Parse(script), registry)

Frame(t) == [term |-> t, called |-> 0]

\* The children a call on t calls the method on.
Children(t) ==
    CASE isVar(t) -> <<>>
      [] isAbs(t) -> <<t.Body>>
      [] isApp(t) -> <<t.Func, t.Arg>>

Top == obj[Len(obj)]

\* The call on top has its next child to call, and the stack has room.
Descend ==
    /\ pc = "visit"
    /\ ~isLazy(Top.term)
    /\ Top.called < Len(Children(Top.term))
    /\ Len(obj) < MaxStack
    /\ obj' = Append([obj EXCEPT ![Len(obj)].called = Top.called + 1],
                     Frame(Children(Top.term)[Top.called + 1]))
    /\ UNCHANGED <<pc, call, limit, steps, i, ret, prev, lazy, parses>>

\* The method of a LazyScript: l.parse(), then the method of the parsed term.
Force ==
    /\ pc = "visit"
    /\ isLazy(Top.term)
    /\ Top.called = 0
    /\ Len(obj) < MaxStack
    /\ LET name == Top.term.entry
       IN  \E r \in {IF lazy[name] = None
                     THEN ParseWith(call.registry, call.registry[name])
                     ELSE Parsed(lazy[name], 0)} :
              IF ~r.ok
              THEN /\ pc' = "panicked"
                   /\ parses' = parses + 1
                   /\ UNCHANGED <<obj, lazy>>
              ELSE /\ pc' = pc
                   /\ parses' = IF lazy[name] = None THEN parses + 1
                                ELSE parses
                   /\ lazy' = [lazy EXCEPT ![name] = r.obj]
                   /\ obj' = Append([obj EXCEPT ![Len(obj)].called = 1],
                                    Frame(r.obj))
    /\ UNCHANGED <<call, limit, steps, i, ret, prev>>

\* The call on top has called all its children: it returns.
Return ==
    /\ pc = "visit"
    /\ Top.called = (IF isLazy(Top.term) THEN 1
                     ELSE Len(Children(Top.term)))
    /\ obj' = SubSeq(obj, 1, Len(obj) - 1)
    /\ pc' = IF Len(obj) = 1 THEN "done" ELSE pc
    /\ UNCHANGED <<call, limit, steps, i, ret, prev, lazy, parses>>

\* The next call does not fit the stack: the runtime ends the program.
StackOverflow ==
    /\ pc = "visit"
    /\ Len(obj) = MaxStack
    /\ Top.called < (IF isLazy(Top.term) THEN 1
                     ELSE Len(Children(Top.term)))
    /\ pc' = "overflow"
    /\ UNCHANGED <<call, obj, limit, steps, i, ret, prev, lazy, parses>>

\* The caller accesses an entry of the registry again, the same or another.
AccessAgain ==
    /\ pc = "done"
    /\ i < MaxAccesses
    /\ \E name \in DOMAIN call.registry :
          /\ call' = [call EXCEPT !.name = name]
          /\ obj' = <<Frame(EntryOf(name))>>
    /\ i' = i + 1
    /\ pc' = "visit"
    /\ UNCHANGED <<limit, steps, ret, prev, lazy, parses>>

InitRegistry ==
    /\ pc = "visit"
    /\ \E registry \in Registries :
          /\ \E name \in DOMAIN registry :
                /\ call = [op |-> "FreeVars", registry |-> registry,
                           name |-> name]
                /\ obj = <<Frame(EntryOf(name))>>
          /\ lazy = [name \in DOMAIN registry |-> None]
    /\ limit = 0
    /\ steps = 0
    /\ i = 1
    /\ ret = None
    /\ prev = None
    /\ parses = 0

NextRegistry ==
    \/ Descend
    \/ Force
    \/ Return
    \/ StackOverflow
    \/ AccessAgain

SpecRegistry == InitRegistry /\ [][NextRegistry]_vars

C26_AcyclicRegistries ==
    /\ pc # "panicked"
    /\ parses = Cardinality({name \in DOMAIN lazy : lazy[name] # None})
    /\ \A name \in DOMAIN lazy :
          lazy[name] # None =>
              lazy[name] = ParseWith(call.registry, call.registry[name]).obj
    /\ (call.registry \in {RegistryChain, RegistryShared}) =>
          pc # "overflow"

\* GCD is parsed and accessed to its end while MOD, which it names, is only
\* then parsed.
C26_ParsedBeforeItsReferences ==
    /\ call.registry = RegistryChain
    /\ lazy["_GCD"] =
          Abstraction("a", Abstraction("b",
              Application(Application(EntryOf("_MOD"), Var("a")),
                          Var("b"))))
    /\ lazy["_MOD"] = None

\* The access to a definition that names itself runs out of stack.
C26_SelfReferenceOverflows ==
    /\ call.registry = RegistrySelf
    /\ pc = "overflow"
    /\ parses = 1

-----------------------------------------------------------------------------
(* The free variables of a substitution's result *)

\* \y.x y0
LamYXY0 == Abstraction("y", Application(Var("x"), Var("y0")))

\* \y.y0
LamYY0 == Abstraction("y", Var("y0"))

\* C27: for every t, x and r with x free in t,
\* FreeVars(Substitute(t, x, r)) = (FreeVars(t) \ {x}) \cup FreeVars(r); for
\* (\y.x y0)[x := y] the variable y0 stays free.
C27_SubstitutionLemma ==
    (pc = "done" /\ call.op = "Substitute"
        /\ call.varName \in FreeVars(call.t)) =>
        FreeVars(ret) = (FreeVars(call.t) \ {call.varName})
                            \cup FreeVars(call.replacement)

\* What the code returns for (\y.x y0)[x := y]: the binder is renamed to
\* y0, which binds the y0 of the body.
C27_FreshNameBindsBodyVariable ==
    ( /\ pc = "done"
      /\ call = [op |-> "Substitute", t |-> LamYXY0, varName |-> "x",
                 replacement |-> Var("y")] )
        => /\ ret = Abstraction("y0", Application(Var("y"), Var("y0")))
           /\ FreeVars(ret) = {"y"}

\* The positions of the variable occurrences that are free in t.
FreePositions(t) == UNION {FreeOccurrences(t, n) : n \in NamesOf(t)}

\* C28: for every t, x and r with x not free in t,
\* FreeVars(Substitute(t, x, r)) = FreeVars(t), and no variable occurrence
\* of t changes from free to bound or from bound to free; (\y.y0)[x := y]
\* keeps y0 free.
C28_AbsentVariable ==
    (pc = "done" /\ call.op = "Substitute"
        /\ call.varName \notin FreeVars(call.t)) =>
        /\ FreeVars(ret) = FreeVars(call.t)
        /\ FreePositions(ret) = FreePositions(call.t)

\* What the code returns for (\y.y0)[x := y]: \y0.y0, a closed term.
C28_RenamesWithoutNeed ==
    ( /\ pc = "done"
      /\ call = [op |-> "Substitute", t |-> LamYY0, varName |-> "x",
                 replacement |-> Var("y")] )
        => /\ ret = Abstraction("y0", Var("y0"))
           /\ FreeVars(ret) = {}

\* What the code returns for (\y.y)[y0 := y]: the binder is renamed to y0
\* and the renamed body y0 is then replaced by y, which is free in \y0.y.
C28_BoundBecomesFree ==
    ( /\ pc = "done"
      /\ call = [op |-> "Substitute", t |-> Abstraction("y", Var("y")),
                 varName |-> "y0", replacement |-> Var("y")] )
        => /\ ret = Abstraction("y0", Var("y"))
           /\ FreeVars(ret) = {"y"}

\* What holds of both cases: no variable is free in the result that was
\* not free in t (other than x) or in r.
C28_NothingNewIsFree ==
    (pc = "done" /\ call.op = "Substitute") =>
        FreeVars(ret) \subseteq
            (FreeVars(call.t) \ {call.varName})
                \cup FreeVars(call.replacement)

-----------------------------------------------------------------------------
(* The free variables along beta steps *)

\* The term of the caller's first call of BetaReduce.
FirstTerm == IF prev = None THEN call.t ELSE prev.call.t

\* C29: if BetaReduce(t) = (t', true) then FreeVars(t') is a subset of
\* FreeVars(t); hence every term reached from a closed term by any number
\* of steps is closed.
C29_NoNewFreeVariables ==
    (call # None /\ call.op = "BetaReduce") =>
        /\ (pc = "done" /\ ret.reduced) =>
              FreeVars(ret.term) \subseteq FreeVars(call.t)
        /\ FreeVars(call.t) \subseteq FreeVars(FirstTerm)
        /\ (FreeVars(FirstTerm) = {}) => FreeVars(call.t) = {}

\* (\y0.\y.y) y steps to \y0.y: the binder is renamed, y is free as before.
C29_Witness ==
    /\ pc = "done"
    /\ call.op = "BetaReduce"
    /\ call.t = Application(Abstraction("y0", Abstraction("y", Var("y"))),
                            Var("y"))
    /\ ret = [term |-> Abstraction("y0", Var("y")), reduced |-> TRUE]

\* A closed term after three steps.
C29_WitnessClosed ==
    /\ pc = "done"
    /\ call.op = "BetaReduce"
    /\ i = MaxBetaSteps
    /\ ret.reduced
    /\ FreeVars(FirstTerm) = {}
    /\ FreeVars(ret.term) = {}

-----------------------------------------------------------------------------
(* The flag of BetaReduce and the redex it contracts *)

IsRedex(t) == isApp(t) /\ isAbs(t.Func)

\* t holds a redex somewhere.
RECURSIVE HasRedex(_)
HasRedex(t) ==
    CASE isVar(t) -> FALSE
      [] isAbs(t) -> HasRedex(t.Body)
      [] isApp(t) -> IsRedex(t) \/ HasRedex(t.Func) \/ HasRedex(t.Arg)

\* The positions of the redexes of t.
RECURSIVE RedexPositions(_)
RedexPositions(t) ==
    CASE isVar(t) -> {}
      [] isAbs(t) -> {<<"Body">> \o p : p \in RedexPositions(t.Body)}
      [] isApp(t) ->
            (IF IsRedex(t) THEN {<<>>} ELSE {})
                \cup {<<"Func">> \o p : p \in RedexPositions(t.Func)}
                \cup {<<"Arg">> \o p : p \in RedexPositions(t.Arg)}

\* t with the subterm at position p replaced by u.
RECURSIVE ReplaceAt(_, _, _)
ReplaceAt(t, p, u) ==
    IF p = <<>> THEN u
    ELSE [t EXCEPT ![Head(p)] = ReplaceAt(t[Head(p)], Tail(p), u)]

\* Names no term of the model uses, for the renamings of the reference
\* substitution.
ReferenceNames == {"v1", "v2", "v3", "v4", "v5", "v6"}

\* The substitution of the lambda calculus, b[x := r]: a binder that would
\* capture a free variable of r is renamed to a name that is new to r, to
\* the body and to x.
RECURSIVE ReferenceSubstitute(_, _, _)
ReferenceSubstitute(t, x, r) ==
    CASE isVar(t) -> IF t.Name = x THEN r ELSE t
      [] isApp(t) -> Application(ReferenceSubstitute(t.Func, x, r),
                                 ReferenceSubstitute(t.Arg, x, r))
      [] isAbs(t) ->
            IF t.Param = x \/ x \notin FreeVars(t.Body) THEN t
            ELSE IF t.Param \notin FreeVars(r)
            THEN Abstraction(t.Param, ReferenceSubstitute(t.Body, x, r))
            ELSE LET n == CHOOSE v \in ReferenceNames :
                              v \notin FreeVars(r) \cup NamesOf(t.Body)
                                           \cup {x}
                 IN  Abstraction(n,
                        ReferenceSubstitute(
                            ReferenceSubstitute(t.Body, t.Param, Var(n)),
                            x, r))

\* t with its bound variables named by the number of binders between the
\* reference and its binder (env lists the binders above, nearest first).
RECURSIVE Nameless(_, _)
Nameless(t, env) ==
    CASE isVar(t) ->
            IF \E k \in 1..Len(env) : env[k] = t.Name
            THEN [tag |-> "Bound",
                  index |-> CHOOSE k \in 1..Len(env) :
                                /\ env[k] = t.Name
                                /\ \A j \in 1..(k - 1) : env[j] # t.Name]
            ELSE t
      [] isAbs(t) -> [tag |-> "Abs", Body |-> Nameless(t.Body,
                                                       <<t.Param>> \o env)]
      [] isApp(t) -> [tag |-> "App", Func |-> Nameless(t.Func, env),
                      Arg |-> Nameless(t.Arg, env)]

\* The two terms differ only in the names of bound variables.
AlphaEquivalent(a, b) == Nameless(a, <<>>) = Nameless(b, <<>>)

\* t with the redex at position p contracted, by the given substitution.
ContractAt(t, p, Subst(_, _, _)) ==
    LET redex == SubtermAt(t, p)
    IN  ReplaceAt(t, p, Subst(redex.Func.Body, redex.Func.Param, redex.Arg))

\* C30: BetaReduce(t) reports reduced = false if and only if t holds no
\* redex anywhere, and then returns a term structurally equal to t; when it
\* reports true the returned term is t with exactly one redex contracted.
C30_FlagExactOneRedex ==
    (pc = "done" /\ call.op = "BetaReduce") =>
        /\ ~ret.reduced <=> ~HasRedex(call.t)
        /\ ~ret.reduced => ret.term = call.t
        /\ ret.reduced =>
              \E p \in RedexPositions(call.t) :
                  AlphaEquivalent(ret.term,
                                  ContractAt(call.t, p, ReferenceSubstitute))

\* What holds: the flag is exact, a term without redex is returned as it
\* is, and otherwise the returned term is t with one redex replaced by what
\* Substitute returns for it, everything around it unchanged.
C30_OneRedexBySubstitute ==
    (pc = "done" /\ call.op = "BetaReduce") =>
        /\ ~ret.reduced <=> ~HasRedex(call.t)
        /\ ~ret.reduced => ret.term = call.t
        /\ ret.reduced =>
              \E p \in RedexPositions(call.t) :
                  ret.term = ContractAt(call.t, p, Substitute)

\* (\y0.\y.y) y: the code returns \y0.y, the contraction is \y.y.
C30_ContractionMissed ==
    (pc = "done" /\ call.op = "BetaReduce"
        /\ call.t = Application(Abstraction("y0",
                                    Abstraction("y", Var("y"))),
                                Var("y"))) =>
        /\ ret.term = Abstraction("y0", Var("y"))
        /\ ReferenceSubstitute(Abstraction("y", Var("y")), "y0", Var("y"))
              = Abstraction("y", Var("y"))
        /\ ~AlphaEquivalent(ret.term, Abstraction("y", Var("y")))

=============================================================================
